---- MODULE Spec2Model ----
(***************************************************************************)
(* A model of the wol-mcp-server core: the resilient fetch layer           *)
(* (fetchWithRetry, both copies), the three public operations that use it  *)
(* (WOLService.search, WOLService.getDocumentByUrl,                        *)
(* VideoService.getVideoSubtitles), and the pure URL functions             *)
(* URLBuilder.validateAndNormalizeDocumentURL, URLBuilder.buildSearchURL,  *)
(* resolveWolConfig, VideoService.parseVideoUrl, the WebVTT functions and  *)
(* the pagination of ContentParser.parseSearchResults; and two invocations *)
(* of the public operations that run concurrently.                         *)
(*                                                                         *)
(* Strings the code inspects character by character are tuples of          *)
(* one-character strings.  A percent escape of a query string ("%26") is   *)
(* one element of such a tuple.                                            *)
(***************************************************************************)
EXTENDS Integers, Sequences, FiniteSets, TLC

VARIABLES
    pc,        \* position of the invocation (see the actions)
    op,        \* the public operation invoked, "none" before the call
    args,      \* its arguments
    call,      \* number of fetchWithRetry calls started by the invocation
    i,         \* loop counter of the running fetchWithRetry call
    log,       \* outcome of every attempt of the running fetchWithRetry call
    timers,    \* pending 30 s timers, one id <<call, attempt>> per timer
    aborted,   \* abort controllers whose abort() has run
    requests,  \* every upstream request issued, in order
    waits,     \* every backoff delay waited, in milliseconds, in order
    response,  \* the Response fetchWithRetry returned last
    env,       \* values the operation keeps between its awaits
    caught,    \* the exception that reached the operation's catch block
    parsers,   \* parsers invoked so far
    outcome,   \* the settled promise of the operation
    fin,       \* input of a pure function under check
    fout,      \* its output
    fstep,     \* how many times it was applied
    frames     \* the invocations that run concurrently, one frame for each

vars == <<pc, op, args, call, i, log, timers, aborted, requests, waits,
          response, env, caught, parsers, outcome, fin, fout, fstep, frames>>

svars == <<pc, op, args, call, i, log, timers, aborted, requests, waits,
           response, env, caught, parsers, outcome>>

fvars == <<fin, fout, fstep, frames>>

----------------------------------------------------------------------------
(* Characters and strings                                                  *)

Uppers == <<"A","B","C","D","E","F","G","H","I","J","K","L","M",
            "N","O","P","Q","R","S","T","U","V","W","X","Y","Z">>
Lowers == <<"a","b","c","d","e","f","g","h","i","j","k","l","m",
            "n","o","p","q","r","s","t","u","v","w","x","y","z">>
Digits == {"0","1","2","3","4","5","6","7","8","9"}
DigitChars == <<"0","1","2","3","4","5","6","7","8","9">>

Range(s) == {s[k] : k \in DOMAIN s}

IsUpper(c) == \E k \in DOMAIN Uppers : Uppers[k] = c
IsLower(c) == \E k \in DOMAIN Lowers : Lowers[k] = c
IsLetter(c) == IsUpper(c) \/ IsLower(c)
IsDigit(c) == c \in Digits

\* String.prototype.toLowerCase, one character
LowerChar(c) ==
    IF IsUpper(c) THEN Lowers[CHOOSE k \in DOMAIN Uppers : Uppers[k] = c] ELSE c

\* String.prototype.toLowerCase
toLowerCase(s) == [k \in DOMAIN s |-> LowerChar(s[k])]

\* s has t at position k (1-based)
HasAt(s, t, k) ==
    /\ k >= 1
    /\ k + Len(t) - 1 <= Len(s)
    /\ \A j \in 1..Len(t) : s[k + j - 1] = t[j]

\* String.prototype.endsWith
endsWith(s, t) == Len(t) <= Len(s) /\ HasAt(s, t, Len(s) - Len(t) + 1)

\* String.prototype.startsWith
startsWith(s, t) == HasAt(s, t, 1)

\* String.prototype.includes
includes(s, t) == \E k \in 1..(Len(s) + 1) : HasAt(s, t, k)

RECURSIVE Concat(_)
\* the concatenation of a sequence of strings
Concat(ss) == IF ss = <<>> THEN <<>> ELSE Head(ss) \o Concat(Tail(ss))

----------------------------------------------------------------------------
(* Errors                                                                  *)

\* options of search when none is given, and the filler of unused fields
NoOptions == [useOperators |-> "absent", page |-> 0, limit |-> 0,
              hasPage |-> FALSE, hasLimit |-> FALSE]

\* the filler of a URL field that holds no URL
NoURL == [valid |-> FALSE, hostname |-> <<>>, pathname |-> <<>>, search |-> <<>>]

\* an error's details that were never set; has names the fields that are set
NoDetails == [has |-> {}, query |-> <<>>, options |-> NoOptions, url |-> NoURL,
              status |-> 0, lank |-> <<>>, language |-> <<>>]

\* new Error(text): no code, no details.  arg is the string interpolated into
\* the message, inner the message text of the error interpolated into it.
NewError(text) ==
    [name |-> "Error", code |-> "none", text |-> text, arg |-> <<>>,
     inner |-> "", details |-> NoDetails, site |-> 0, attempt |-> <<0, 0>>]

\* no error
NoError == NewError("")

\* createWOLError: an Error with the code and the details bolted on
createWOLError(code, message, details) ==
    [NewError(message) EXCEPT !.code = code, !.details = details]

\* the error created at line site of the source: two errors of different
\* places are different objects even when their fields agree
At(site, e) == [e EXCEPT !.site = site]

\* error instanceof Error && (error as WOLError).code
HasCode(e) == e.name \in {"Error", "TypeError", "DOMException", "SyntaxError"}
              /\ e.code # "none"

----------------------------------------------------------------------------
(* URL and URLSearchParams                                                 *)

\* new URL(urlString) throws
URLThrows(u) == ~u.valid

\* new URL(urlString): the host of a parsed URL is in lower case
NewURL(u) == [u EXCEPT !.hostname = toLowerCase(u.hostname)]

RECURSIVE Split(_, _)
\* s split at every sep
Split(s, sep) ==
    IF \E k \in DOMAIN s : s[k] = sep
    THEN LET k == CHOOSE k \in DOMAIN s : s[k] = sep /\ \A j \in 1..(k-1) : s[j] # sep
         IN  <<SubSeq(s, 1, k-1)>> \o Split(SubSeq(s, k+1, Len(s)), sep)
    ELSE <<s>>

\* percent decoding of one element of a query string, "+" being a space
DecodeTok(t) ==
    CASE t = "+"   -> " "
      [] t = "%20" -> " "
      [] t = "%26" -> "&"
      [] t = "%3D" -> "="
      [] t = "%2B" -> "+"
      [] t = "%25" -> "%"
      [] t = "%0A" -> "\n"
      [] t = "%5B" -> "["
      [] t = "%5D" -> "]"
      [] OTHER     -> t

\* form-urlencoded serialisation of one character
EncodeTok(c) ==
    CASE c = " " -> "+"
      [] c = "&" -> "%26"
      [] c = "=" -> "%3D"
      [] c = "+" -> "%2B"
      [] c = "%" -> "%25"
      [] c = "\n" -> "%0A"
      [] c = "[" -> "%5B"
      [] c = "]" -> "%5D"
      [] OTHER   -> c

Decode(s) == [k \in DOMAIN s |-> DecodeTok(s[k])]
Encode(s) == [k \in DOMAIN s |-> EncodeTok(s[k])]

\* one name=value piece of a query string
ParsePair(piece) ==
    IF \E k \in DOMAIN piece : piece[k] = "="
    THEN LET k == CHOOSE k \in DOMAIN piece :
                     piece[k] = "=" /\ \A j \in 1..(k-1) : piece[j] # "="
         IN  [k |-> Decode(SubSeq(piece, 1, k-1)),
              v |-> Decode(SubSeq(piece, k+1, Len(piece)))]
    ELSE [k |-> Decode(piece), v |-> <<>>]

\* url.searchParams: the list of the pairs of the query string
searchParams(search) ==
    LET pieces == SelectSeq(Split(search, "&"), LAMBDA p : p # <<>>)
    IN  [n \in DOMAIN pieces |-> ParsePair(pieces[n])]

RECURSIVE ParamsToString(_)
\* URLSearchParams.toString
ParamsToString(ps) ==
    IF ps = <<>> THEN <<>>
    ELSE Encode(Head(ps).k) \o <<"=">> \o Encode(Head(ps).v)
         \o (IF Len(ps) > 1 THEN <<"&">> ELSE <<>>) \o ParamsToString(Tail(ps))

\* URLSearchParams.get: the first value of the name, <<>> standing for null
\* (the callers treat null and the empty string alike)
ParamsGet(ps, name) ==
    IF \E n \in DOMAIN ps : ps[n].k = name
    THEN ps[CHOOSE n \in DOMAIN ps :
                ps[n].k = name /\ \A m \in 1..(n-1) : ps[m].k # name].v
    ELSE <<>>

JwOrg == <<"j","w",".","o","r","g">>
Wol == <<"w","o","l">>
WolD == <<"/","w","o","l","/","d","/">>

\* the query parameters validateAndNormalizeDocumentURL keeps
AllowedParamsBug == {<<"q">>}
AllowedParams == {<<"q">>, <<"p">>}

\* the host test of validateAndNormalizeDocumentURL
HostAccepted(host) == endsWith(host, JwOrg) /\ includes(host, Wol)

\* the path test of validateAndNormalizeDocumentURL: /\/wol\/d\//i
PathAccepted(pathname) == includes(toLowerCase(pathname), WolD)

\* the query parameters copied into clean
CleanParams(ps) == SelectSeq(ps, LAMBDA kv : kv.k \in AllowedParams)

\* URLBuilder.validateAndNormalizeDocumentURL: the URL returned, or the error
\* thrown
validateAndNormalizeDocumentURL(urlString) ==
    IF URLThrows(urlString)
    THEN [ok |-> FALSE, url |-> NoURL, error |-> At(88, NewError("Invalid URL"))]
    ELSE LET parsed == NewURL(urlString)
             host == toLowerCase(parsed.hostname)
         IN  IF ~HostAccepted(host)
             THEN [ok |-> FALSE, url |-> NoURL,
                   error |-> At(92, NewError("URL must be a jw.org WOL document"))]
             ELSE IF ~PathAccepted(parsed.pathname)
             THEN [ok |-> FALSE, url |-> NoURL,
                   error |-> At(95, NewError("URL must point to a WOL document (contains /wol/d/)"))]
             ELSE [ok |-> TRUE,
                   url |-> [parsed EXCEPT !.search =
                               ParamsToString(CleanParams(searchParams(parsed.search)))],
                   error |-> NoError]

----------------------------------------------------------------------------
(* VideoService.parseVideoUrl                                              *)

PubPrefix == <<"p","u","b","-">>
DocidPrefix == <<"d","o","c","i","d","-">>
VideoSuffix == <<"_","V","I","D","E","O">>
LineTerminators == {"\n", "\r"}

\* [a-zA-Z0-9-]
PubIdChars == Range(Uppers) \cup Range(Lowers) \cup Digits \cup {"-"}

\* \d
DocIdChars == Digits

\* . of a regular expression without the s flag
Dot(c) == c \notin LineTerminators

\* the literal parts of the identifier patterns are compared as written
FoldExact(s) == s
\* the i flag of the identifier patterns
Fold(s) == toLowerCase(s)

\* lank.match(/^<prefix>(<IdChar>+)_(.+)_VIDEO$/i): the two groups when the
\* pattern matches.  The first group is the longest run of id characters after
\* the prefix (no shorter one is followed by "_"); the second is what lies
\* between the "_" after it and the final _VIDEO.
MatchIdentifier(lank, prefix, idChars) ==
    LET n == Len(lank)
        a == Len(prefix) + 1
        stops == {k \in a..n : lank[k] \notin idChars}
        e == IF stops = {} THEN n + 1
             ELSE CHOOSE k \in stops : \A j \in stops : k <= j
        t == n - Len(VideoSuffix)
    IN  IF /\ startsWith(Fold(lank), prefix)
           /\ e > a
           /\ e <= n
           /\ lank[e] = "_"
           /\ t >= e + 1
           /\ endsWith(Fold(lank), Fold(VideoSuffix))
           /\ \A k \in (e+1)..t : Dot(lank[k])
        THEN [matched |-> TRUE, id |-> SubSeq(lank, a, e - 1),
              track |-> SubSeq(lank, e + 1, t)]
        ELSE [matched |-> FALSE, id |-> <<>>, track |-> <<>>]

\* the ParsedVideoParams of no URL
NoParams == [id |-> <<>>, track |-> <<>>, language |-> <<>>, type |-> "none"]

\* VideoService.parseVideoUrl: the ParsedVideoParams returned, or the error
\* thrown
parseVideoUrl(url) ==
    IF URLThrows(url)
    THEN [ok |-> FALSE, params |-> NoParams,
          error |-> At(608, createWOLError("INVALID_QUERY", "Invalid URL format",
                        [NoDetails EXCEPT !.has = {"url"}, !.url = url]))]
    ELSE
    LET params == searchParams(NewURL(url).search)
        wtlocale == ParamsGet(params, <<"w","t","l","o","c","a","l","e">>)
        language == IF wtlocale # <<>> THEN wtlocale ELSE ParamsGet(params, <<"a","p","p","L","a","n","g","u","a","g","e">>)
        lankP == ParamsGet(params, <<"l","a","n","k">>)
        lank == IF lankP # <<>> THEN lankP ELSE ParamsGet(params, <<"i","t","e","m">>)
        pubMatch == MatchIdentifier(lank, PubPrefix, PubIdChars)
        docidMatch == MatchIdentifier(lank, DocidPrefix, DocIdChars)
    IN  IF language = <<>>
        THEN [ok |-> FALSE, params |-> NoParams,
              error |-> At(617, createWOLError("INVALID_QUERY",
                   "Could not determine video language from URL. Expected 'wtlocale' or 'appLanguage' parameter.",
                   [NoDetails EXCEPT !.has = {"url"}, !.url = url]))]
        ELSE IF lank = <<>>
        THEN [ok |-> FALSE, params |-> NoParams,
              error |-> At(628, createWOLError("INVALID_QUERY",
                   "Could not find video identifier in URL. Expected 'lank' or 'item' parameter.",
                   [NoDetails EXCEPT !.has = {"url"}, !.url = url]))]
        ELSE IF pubMatch.matched
        THEN [ok |-> TRUE, error |-> NoError,
              params |-> [id |-> pubMatch.id, track |-> pubMatch.track,
                          language |-> language, type |-> "pub"]]
        ELSE IF docidMatch.matched
        THEN [ok |-> TRUE, error |-> NoError,
              params |-> [id |-> docidMatch.id, track |-> docidMatch.track,
                          language |-> language, type |-> "docid"]]
        ELSE [ok |-> FALSE, params |-> NoParams,
              error |-> At(649, [createWOLError("INVALID_QUERY",
                   "Unrecognized video identifier format: ${lank}. Expected formats like pub-{id}_{track}_VIDEO or docid-{id}_{track}_VIDEO",
                   [NoDetails EXCEPT !.has = {"url", "lank"}, !.url = url, !.lank = lank])
                   EXCEPT !.arg = lank])]

----------------------------------------------------------------------------
(* WebVTT text: cleanVtt, parseVttTimestamp, filterVttByTimeRange          *)

\* the white space of String.prototype.trim and of \s
WhiteSpace == {" ", "\t", "\n", "\r"}

\* the length of the longest prefix of s made of characters of chars
PrefixRun(s, chars) ==
    IF \E k \in DOMAIN s : s[k] \notin chars
    THEN (CHOOSE k \in DOMAIN s :
              s[k] \notin chars /\ \A j \in 1..(k-1) : s[j] \in chars) - 1
    ELSE Len(s)

\* the length of the longest suffix of s made of characters of chars
SuffixRun(s, chars) ==
    IF \E k \in DOMAIN s : s[k] \notin chars
    THEN Len(s) - (CHOOSE k \in DOMAIN s :
                       s[k] \notin chars /\ \A j \in (k+1)..Len(s) : s[j] \in chars)
    ELSE Len(s)

\* String.prototype.trimStart and trimEnd
trimStart(s) == SubSeq(s, PrefixRun(s, WhiteSpace) + 1, Len(s))
trimEnd(s) == SubSeq(s, 1, Len(s) - SuffixRun(s, WhiteSpace))

\* String.prototype.trim
trim(s) == trimEnd(trimStart(s))

RECURSIVE Join(_, _)
\* Array.prototype.join
Join(ss, sep) ==
    IF ss = <<>> THEN <<>>
    ELSE IF Len(ss) = 1 THEN ss[1]
    ELSE ss[1] \o sep \o Join(Tail(ss), sep)

Arrow == <<"-", "-", ">">>

\* the value of a decimal digit
DigitValue(c) == CHOOSE n \in 0..9 : DigitChars[n + 1] = c

RECURSIVE DigitsValue(_)
\* the number a string of digits denotes
DigitsValue(s) ==
    IF s = <<>> THEN 0
    ELSE 10 * DigitsValue(SubSeq(s, 1, Len(s) - 1)) + DigitValue(s[Len(s)])

\* a number of the source, in thousandths; nan for NaN
NaN == [nan |-> TRUE, ms |-> 0]
Num(ms) == [nan |-> FALSE, ms |-> ms]

\* parseInt(s, 10) of a string without sign and leading white space
parseInt(s) ==
    LET n == PrefixRun(s, Digits)
    IN  IF n = 0 THEN NaN ELSE Num(1000 * DigitsValue(SubSeq(s, 1, n)))

\* the thousandths a fraction of up to three digits denotes
FractionValue(f) ==
    CASE Len(f) = 0 -> 0
      [] Len(f) = 1 -> 100 * DigitsValue(f)
      [] Len(f) = 2 -> 10 * DigitsValue(f)
      [] OTHER      -> DigitsValue(SubSeq(f, 1, 3))

\* parseFloat(s) of a string without sign, exponent and leading white space
parseFloat(s) ==
    LET n == PrefixRun(s, Digits)
        rest == SubSeq(s, n + 1, Len(s))
        f == IF rest # <<>> /\ rest[1] = "."
             THEN SubSeq(rest, 2, 1 + PrefixRun(Tail(rest), Digits)) ELSE <<>>
    IN  IF n = 0 /\ f = <<>> THEN NaN
        ELSE Num(1000 * DigitsValue(SubSeq(s, 1, n)) + FractionValue(f))

\* a + b and n * a of the source
Plus(a, b) == IF a.nan \/ b.nan THEN NaN ELSE Num(a.ms + b.ms)
Times(n, a) == IF a.nan THEN NaN ELSE Num(n * a.ms)

\* a > b
GreaterThan(a, b) == ~a.nan /\ ~b.nan /\ a.ms > b.ms

\* a >= b and a <= b of the source: false when an operand is NaN
Geq(a, b) == ~a.nan /\ ~b.nan /\ a.ms >= b.ms
Leq(a, b) == ~a.nan /\ ~b.nan /\ a.ms <= b.ms

\* VideoService.parseVttTimestamp
parseVttTimestamp(timestamp) ==
    LET parts == Split(trim(timestamp), ":")
    IN  IF Len(parts) = 3
        THEN Plus(Plus(Times(3600, parseInt(parts[1])), Times(60, parseInt(parts[2]))),
                  parseFloat(parts[3]))
        ELSE IF Len(parts) = 2
        THEN Plus(Times(60, parseInt(parts[1])), parseFloat(parts[2]))
        ELSE Num(0)

\* [\d:.]
StampChars == Digits \cup {":", "."}

\* t matches \d+:[\d:.]+ as a whole
IsStamp(t) ==
    LET k == PrefixRun(t, Digits)
    IN  /\ Range(t) \subseteq StampChars
        /\ k >= 1
        /\ Len(t) >= k + 2
        /\ t[k + 1] = ":"

\* the match of /(\d+:[\d:.]+)\s*-->\s*(\d+:[\d:.]+)/ with its arrow at a:
\* the first group ends at the last character before the white space before the
\* arrow and starts as far left as it can; the second group is the longest
\* run of [\d:.] after the white space after the arrow
StampMatchAt(line, a) ==
    LET before == trimEnd(SubSeq(line, 1, a - 1))
        starts == {p \in DOMAIN before : IsStamp(SubSeq(before, p, Len(before)))}
        after == trimStart(SubSeq(line, a + 3, Len(line)))
        second == SubSeq(after, 1, PrefixRun(after, StampChars))
    IN  IF starts # {} /\ IsStamp(second)
        THEN [matched |-> TRUE,
              first |-> SubSeq(before, CHOOSE p \in starts : \A q \in starts : p <= q,
                               Len(before)),
              second |-> second]
        ELSE [matched |-> FALSE, first |-> <<>>, second |-> <<>>]

\* line.match(/(\d+:[\d:.]+)\s*-->\s*(\d+:[\d:.]+)/): the match of the
\* leftmost arrow that has one
timestampMatch(line) ==
    LET arrows == {a \in DOMAIN line : HasAt(line, Arrow, a)
                                        /\ StampMatchAt(line, a).matched}
    IN  IF arrows = {} THEN [matched |-> FALSE, first |-> <<>>, second |-> <<>>]
        ELSE StampMatchAt(line, CHOOSE a \in arrows : \A b \in arrows : a <= b)

\* the index of the first line from n on that ends the text of a cue: an
\* empty line or a line with an arrow; Len(lines) + 1 when there is none
RECURSIVE TextEnd(_, _)
TextEnd(lines, n) ==
    IF n <= Len(lines) /\ trim(lines[n]) # <<>> /\ ~includes(lines[n], Arrow)
    THEN TextEnd(lines, n + 1) ELSE n

\* the second loop of filterVttByTimeRange from line n on: the lines pushed
RECURSIVE ProcessCues(_, _, _, _)
ProcessCues(lines, n, startTime, endTime) ==
    IF n > Len(lines) THEN <<>>
    ELSE IF includes(lines[n], Arrow) /\ timestampMatch(lines[n]).matched
    THEN LET m == timestampMatch(lines[n])
             cueStart == parseVttTimestamp(m.first)
             cueEnd == parseVttTimestamp(m.second)
             j == TextEnd(lines, n + 1)
         IN  IF Geq(cueEnd, startTime) /\ Leq(cueStart, endTime)
             THEN <<lines[n]>> \o SubSeq(lines, n + 1, j - 1) \o << <<>> >>
                  \o ProcessCues(lines, j, startTime, endTime)
             ELSE ProcessCues(lines, j, startTime, endTime)
    ELSE ProcessCues(lines, n + 1, startTime, endTime)

WEBVTT == <<"W", "E", "B", "V", "T", "T">>

\* VideoService.filterVttByTimeRange
filterVttByTimeRange(vttContent, startTime, endTime) ==
    LET lines == Split(vttContent, "\n")
        withArrow == {k \in DOMAIN lines : includes(lines[k], Arrow)}
        n == IF withArrow = {} THEN Len(lines) + 1
             ELSE CHOOSE k \in withArrow : \A j \in withArrow : k <= j
    IN  trim(Join(<<WEBVTT, <<>>>> \o ProcessCues(lines, n, startTime, endTime),
                  <<"\n">>))

----------------------------------------------------------------------------
(* WebVTT text: vttToPlainText                                             *)

\* /^\d+$/.test(s)
IsNumeric(s) == s # <<>> /\ Range(s) \subseteq Digits

\* \w
WordChars == Range(Uppers) \cup Range(Lowers) \cup Digits \cup {"_"}

\* the length of the match of /<[^>]+>/ (for open "<" and close ">") at
\* position p of s, 0 when there is none: the open character, at least one
\* character that is not the close character, and the close character
DelimitedAt(s, p, open, close) ==
    LET inside == PrefixRun(SubSeq(s, p + 1, Len(s)), Range(s) \ {close})
    IN  IF s[p] = open /\ inside >= 1 /\ p + inside + 1 <= Len(s)
        THEN inside + 2 ELSE 0

RECURSIVE RemoveDelimited(_, _, _)
\* s.replace(/<[^>]+>/g, ""): the matches are removed from left to right
RemoveDelimited(s, open, close) ==
    LET ps == {p \in DOMAIN s : DelimitedAt(s, p, open, close) > 0}
        p == CHOOSE q \in ps : \A r \in ps : q <= r
    IN  IF ps = {} THEN s
        ELSE SubSeq(s, 1, p - 1)
             \o RemoveDelimited(SubSeq(s, p + DelimitedAt(s, p, open, close), Len(s)),
                                open, close)

\* the length of the match of /<word><argChars>+<suffix>/ at position p of s,
\* 0 when there is none: the word, the longest run of argument characters (at
\* least one) and the suffix
DirectiveAt(s, p, word, argChars, suffix) ==
    LET rest == SubSeq(s, p + Len(word), Len(s))
        n == PrefixRun(rest, argChars)
    IN  IF /\ HasAt(s, word, p)
           /\ n >= 1
           /\ startsWith(SubSeq(rest, n + 1, Len(rest)), suffix)
        THEN Len(word) + n + Len(suffix) ELSE 0

RECURSIVE RemoveDirective(_, _, _, _)
\* s.replace(/<word><argChars>+<suffix>/g, ""): the matches are removed from
\* left to right
RemoveDirective(s, word, argChars, suffix) ==
    LET ps == {p \in DOMAIN s : DirectiveAt(s, p, word, argChars, suffix) > 0}
        p == CHOOSE q \in ps : \A r \in ps : q <= r
    IN  IF ps = {} THEN s
        ELSE SubSeq(s, 1, p - 1)
             \o RemoveDirective(SubSeq(s, p + DirectiveAt(s, p, word, argChars, suffix),
                                       Len(s)),
                                word, argChars, suffix)

LineWord == <<"l","i","n","e",":">>
PositionWord == <<"p","o","s","i","t","i","o","n",":">>
AlignWord == <<"a","l","i","g","n",":">>

\* the cleanText of a trimmed line of cue text
cleanText(trimmed) ==
    LET noTags == RemoveDelimited(trimmed, "<", ">")
        noStyle == RemoveDelimited(noTags, "{", "}")
        noLine == RemoveDirective(noStyle, LineWord, Digits, <<"%">>)
        noPosition == RemoveDirective(noLine, PositionWord, Digits, <<"%">>)
        noAlign == RemoveDirective(noPosition, AlignWord, WordChars, <<>>)
    IN  trim(SelectSeq(noAlign, LAMBDA c : c # "\\"))

RECURSIVE collectText(_, _)
\* the first loop of vttToPlainText: the textLines of the lines, inCue being
\* the flag before the first line
collectText(lines, inCue) ==
    IF lines = <<>> THEN <<>>
    ELSE LET trimmed == trim(Head(lines)) IN
         IF trimmed = WEBVTT \/ trimmed = <<>> THEN collectText(Tail(lines), FALSE)
         ELSE IF includes(trimmed, Arrow) THEN collectText(Tail(lines), TRUE)
         ELSE IF IsNumeric(trimmed) THEN collectText(Tail(lines), inCue)
         ELSE IF inCue /\ cleanText(trimmed) # <<>>
         THEN <<cleanText(trimmed)>> \o collectText(Tail(lines), inCue)
         ELSE collectText(Tail(lines), inCue)

\* currentSentence.match(/[.!?:;]["']?\s*$/)
EndsSentence(sentence) ==
    LET t == trimEnd(sentence)
        n == Len(t)
        Punctuation == {".", "!", "?", ":", ";"}
    IN  /\ n >= 1
        /\ \/ t[n] \in Punctuation
           \/ (t[n] \in {"\"", "'"} /\ n >= 2 /\ t[n - 1] \in Punctuation)

RECURSIVE joinSentences(_, _)
\* the second loop of vttToPlainText and the push after it: the result, for
\* the textLines left and the currentSentence so far
joinSentences(textLines, currentSentence) ==
    IF textLines = <<>>
    THEN IF currentSentence # <<>> THEN <<trim(currentSentence)>> ELSE <<>>
    ELSE LET line == Head(textLines) IN
         IF endsWith(currentSentence, line)
         THEN joinSentences(Tail(textLines), currentSentence)
         ELSE IF currentSentence # <<>> /\ ~EndsSentence(currentSentence)
         THEN joinSentences(Tail(textLines), currentSentence \o <<" ">> \o line)
         ELSE IF currentSentence # <<>>
         THEN <<trim(currentSentence)>> \o joinSentences(Tail(textLines), line)
         ELSE joinSentences(Tail(textLines), line)

\* VideoService.vttToPlainText
vttToPlainText(vttContent) ==
    Join(joinSentences(collectText(Split(vttContent, "\n"), FALSE), <<>>), <<"\n">>)

----------------------------------------------------------------------------
(* WebVTT text: cleanVtt, and the text of a subtitle file                  *)

\* VideoService.cleanVtt
cleanVtt(vttContent) ==
    LET noLine == RemoveDirective(vttContent, <<" ">> \o LineWord, Digits, <<"%">>)
        noPosition == RemoveDirective(noLine, <<" ">> \o PositionWord, Digits, <<"%">>)
        noAlign == RemoveDirective(noPosition, <<" ">> \o AlignWord, WordChars, <<>>)
    IN  trim(noAlign)

\* n as two and as three decimal digits
Pad2(n) == <<DigitChars[((n \div 10) % 10) + 1], DigitChars[(n % 10) + 1]>>
Pad3(n) == <<DigitChars[((n \div 100) % 10) + 1]>> \o Pad2(n % 100)

\* a time in thousandths of a second as a WebVTT timestamp, HH:MM:SS.mmm when
\* long and MM:SS.mmm otherwise
Stamp(ms, long) ==
    LET sec == ms \div 1000 IN
    (IF long THEN Pad2(sec \div 3600) \o <<":">> \o Pad2((sec \div 60) % 60)
             ELSE Pad2(sec \div 60))
    \o <<":">> \o Pad2(sec % 60) \o <<".">> \o Pad3(ms % 1000)

CueSettings == <<" ","l","i","n","e",":","9","0","%"," ","p","o","s","i","t","i","o","n",":","5","0","%"," ","a","l","i","g","n",":","c","e","n","t","e","r">>

\* the timestamp line of a cue
StampLine(c) ==
    Stamp(c.start, c.long) \o <<" ">> \o Arrow \o <<" ">> \o Stamp(c.end, c.long)
    \o (IF c.settings THEN CueSettings ELSE <<>>)

\* the lines of a cue in a subtitle file: its identifier, its timestamp line,
\* its text and the empty line after it
CueLines(c) ==
    (IF c.id THEN << <<"7">> >> ELSE <<>>) \o <<StampLine(c)>> \o c.text \o << <<>> >>

\* the text of a subtitle file of the cues
VttFile(note, cues) ==
    Join(<<WEBVTT, <<>>>> \o (IF note THEN <<<<"N","O","T","E"," ","x">>, <<>>>> ELSE <<>>)
         \o Concat([k \in DOMAIN cues |-> CueLines(cues[k])]), <<"\n">>)

TextLine1 == <<"H","e","l","l","o",",">>
TextLine2 == <<"<","i",">","w","o","r","l","d",".","<","/","i",">">>

----------------------------------------------------------------------------
(* Upstream: what a request can be answered with                           *)

\* WOLService.MAX_RETRIES
WOL_MAX_RETRIES == 3
\* VideoService.MAX_RETRIES
VIDEO_MAX_RETRIES == 3
\* WOLService.TIMEOUT and VideoService.TIMEOUT, milliseconds
TIMEOUT == 30000
\* pageSize of parseSearchResults
PageSize == 40

\* the statuses upstream answers with
Statuses == {200, 403, 404, 500, 502, 503}

\* Response.ok
ResponseOk(status) == status >= 200 /\ status <= 299

\* a response body: what the page holds, as far as the parsers read it.
\*   readable     response.text() / response.json() can read it to the end
\*   parseThrows  the parser throws on it (for JSON: the body is no JSON)
\*   nKey, nDoc   key-publication and document containers with a caption link
\*   total, selected   the results count and the selected page of the page
\*   hasFiles, hasLang, mp4   metadata.files, files[language], and for every
\*                entry of files[language].MP4 whether it has subtitles
\*   duration     firstVideo.duration of the metadata, in thousandths of a second
\*   blank, cues  a subtitle file: empty, or the WebVTT text of the cues
NoBody == [readable |-> TRUE, parseThrows |-> FALSE, nKey |-> 0, nDoc |-> 0,
           total |-> 0, selected |-> 1, hasFiles |-> FALSE, hasLang |-> FALSE,
           mp4 |-> <<>>, duration |-> 0, blank |-> TRUE, cues |-> <<>>]

\* the largest number of document containers of a search page of the model
MaxDocs == 2

SearchBodies ==
    {[NoBody EXCEPT !.readable = FALSE],
     NoBody,
     [NoBody EXCEPT !.nKey = 1, !.nDoc = MaxDocs, !.total = PageSize + 1, !.selected = 2]}

DocBodies ==
    {[NoBody EXCEPT !.readable = r, !.parseThrows = t] : r, t \in BOOLEAN}

MetaBodies ==
    {[NoBody EXCEPT !.readable = FALSE],
     [NoBody EXCEPT !.parseThrows = TRUE],
     NoBody,
     [NoBody EXCEPT !.hasFiles = TRUE],
     [NoBody EXCEPT !.hasFiles = TRUE, !.hasLang = TRUE],
     [NoBody EXCEPT !.hasFiles = TRUE, !.hasLang = TRUE, !.mp4 = <<FALSE, TRUE>>],
     [NoBody EXCEPT !.hasFiles = TRUE, !.hasLang = TRUE, !.mp4 = <<TRUE>>,
                    !.duration = 60000]}

\* the cues of the subtitle files of the invocations of the model
SubtitleCue(start, end) ==
    [start |-> start, end |-> end, long |-> TRUE, id |-> TRUE, settings |-> TRUE,
     text |-> <<TextLine1>>]

VttBodies ==
    {[NoBody EXCEPT !.readable = FALSE],
     NoBody,
     [NoBody EXCEPT !.blank = FALSE],
     [NoBody EXCEPT !.blank = FALSE,
                    !.cues = <<SubtitleCue(10000, 15000), SubtitleCue(70000, 75000)>>]}

\* response.text() of a subtitle file
VttText(body) == IF body.blank THEN <<>> ELSE VttFile(FALSE, body.cues)

\* the Response of no request
NoResponse == [status |-> 0, body |-> NoBody]

----------------------------------------------------------------------------
(* Arguments                                                               *)

\* the characters validateOperators accepts besides letters, digits and spaces
OperatorChars == {"&", "+", "|", "/", "^", "%", "!", "\"", "*", "?", "#", "\\",
                  "(", ")", "_", "-"}

\* SearchOperatorParser.validateOperators
validateOperators(query) ==
    /\ Len(query) >= 1
    /\ \A k \in DOMAIN query :
          IsLetter(query[k]) \/ IsDigit(query[k]) \/ query[k] = " "
          \/ query[k] \in OperatorChars

\* the largest page and limit asked for in the model
MaxPage == 2
MaxLimit == 1

Queries == {<<"a", "&", "b">>, <<"a", "<">>}

OptionSets ==
    {[useOperators |-> u, page |-> pg, limit |-> l, hasPage |-> hp, hasLimit |-> hl] :
        u \in {"absent", "true", "false"}, pg \in 0..MaxPage, l \in 0..MaxLimit,
        hp \in BOOLEAN, hl \in BOOLEAN}

\* the options a caller can pass: an absent field holds the filler 0
Options ==
    {o \in OptionSets : /\ (IF o.hasPage THEN o.page >= 1 ELSE o.page = 0)
                        /\ (~o.hasLimit => o.limit = 0)}

WolHost == <<"w","o","l",".","j","w",".","o","r","g">>
SearchPath == <<"/","e","n","/","w","o","l","/","s","/","r","1","/","l","p","-","e">>
DocPath == <<"/","e","n","/","w","o","l","/","d","/","r","1","/","l","p","-","e","/","1">>

\* the document URLs of the invocations of the model
DocURLs ==
    {[valid |-> v, hostname |-> h, pathname |-> pa, search |-> <<"q","=","a","&","x","=","1">>] :
        v \in BOOLEAN,
        h \in {WolHost, <<"w","w","w",".","j","w",".","o","r","g">>, <<"e","v","i","l","w","o","l","j","w",".","o","r","g">>, <<"w","o","l",".","e","x","a","m","p","l","e",".","c","o","m">>},
        pa \in {DocPath, SearchPath}}

\* the video URLs of the invocations of the model
VideoQueries ==
    {<<"w","t","l","o","c","a","l","e","=","E","&","l","a","n","k","=","p","u","b","-","j","w","b","v","o","d","2","5","_","4","1","_","V","I","D","E","O">>, <<"i","t","e","m","=","d","o","c","i","d","-","1","1","1","2","0","2","4","0","4","0","_","1","_","V","I","D","E","O","&","a","p","p","L","a","n","g","u","a","g","e","=","T">>, <<"l","a","n","k","=","p","u","b","-","j","w","b","v","o","d","2","5","_","4","1","_","V","I","D","E","O">>, <<"w","t","l","o","c","a","l","e","=","E">>, <<"w","t","l","o","c","a","l","e","=","E","&","l","a","n","k","=","x","y","z">>}

VideoURLs ==
    {[valid |-> TRUE, hostname |-> <<"w","w","w",".","j","w",".","o","r","g">>, pathname |-> <<"/","f","i","n","d","e","r">>, search |-> q] :
        q \in VideoQueries}
    \cup {[valid |-> FALSE, hostname |-> <<>>, pathname |-> <<>>, search |-> <<"x">>]}

\* the arguments of no invocation
NoArgs == [query |-> <<>>, options |-> NoOptions, url |-> NoURL, format |-> "text",
           hasStart |-> FALSE, startTime |-> 0, hasEnd |-> FALSE, endTime |-> 0]

----------------------------------------------------------------------------
(* Values returned                                                         *)

NoPagination == [totalResults |-> 0, pageSize |-> 0, totalPages |-> 0, currentPage |-> 0]

\* the value of no return
NoValue == [kind |-> "none", results |-> <<>>, pagination |-> NoPagination,
            url |-> NoURL, rawVtt |-> <<>>, plainText |-> <<>>]

\* n copies of x
Rep(n, x) == [k \in 1..n |-> x]

\* the characters of the match of /([\d][\d.,]*)/
CountChars == Digits \cup {".", ","}

\* totalResults of parseSearchResults: the first run of digits, points and
\* commas of the text of #resultsCount that starts with a digit, read without
\* its points and commas; 0 when the text holds no digit
totalResultsOf(countContainer) ==
    LET starts == {k \in DOMAIN countContainer : countContainer[k] \in Digits} IN
    IF starts = {} THEN 0
    ELSE LET a == CHOOSE k \in starts : \A l \in starts : k <= l
             rest == SubSeq(countContainer, a, Len(countContainer))
             totalMatch == SubSeq(rest, 1, PrefixRun(rest, CountChars))
         IN  parseInt(SelectSeq(totalMatch, LAMBDA c : c \notin {".", ","})).ms \div 1000

\* Math.ceil(n / d) of natural numbers, d positive
Ceil(n, d) == (n + d - 1) \div d

\* the pagination with a page count rounded down
PaginationRoundsDown(totalResults, currentPage) ==
    [totalResults |-> totalResults,
     pageSize |-> PageSize,
     totalPages |-> IF totalResults > 0 THEN totalResults \div PageSize ELSE 1,
     currentPage |-> currentPage]

\* the pagination of parseSearchResults
Pagination(totalResults, currentPage) ==
    [totalResults |-> totalResults,
     pageSize |-> PageSize,
     totalPages |-> IF totalResults > 0 THEN Ceil(totalResults, PageSize) ELSE 1,
     currentPage |-> currentPage]

\* parseInt(s, 10): the white space at the start is skipped, a sign is read,
\* and the digits that follow are the value; NaN when no digit follows
parseIntSigned(s) ==
    LET t == trimStart(s)
        signed == t # <<>> /\ t[1] \in {"+", "-"}
        v == parseInt(IF signed THEN Tail(t) ELSE t)
    IN  IF v.nan THEN NaN
        ELSE IF signed /\ t[1] = "-" THEN Num(0 - v.ms) ELSE v

\* currentPage of parseSearchResults, for the text of the selected navigation
\* marker (empty when there is none): 1, replaced by parseInt of the text when
\* the text is not empty and holds a digit
currentPageOf(selected) ==
    IF selected # <<>> /\ (\E k \in DOMAIN selected : selected[k] \in Digits)
    THEN parseIntSigned(selected)
    ELSE Num(1000)

\* ContentParser.parseSearchResults: the key publications of the page, then its
\* documents, and the pagination
parseSearchResults(html) ==
    [results |-> Rep(html.nKey, "key_publication") \o Rep(html.nDoc, "document_result"),
     pagination |-> Pagination(html.total, html.selected)]

\* Array.prototype.slice(0, n)
Slice(s, n) == SubSeq(s, 1, IF n < Len(s) THEN n ELSE Len(s))

RECURSIVE pageToString(_)
\* Number.prototype.toString of a natural number
pageToString(n) ==
    IF n < 10 THEN <<DigitChars[n + 1]>>
    ELSE pageToString(n \div 10) \o <<DigitChars[(n % 10) + 1]>>

\* a request whose signal is the one of a controller made once for the call
RequestOneController(c, k, url, accept) ==
    [url |-> url, accept |-> accept, controller |-> <<c, 0>>]

\* the request a fetch sends
Request(c, k, url, accept) == [url |-> url, accept |-> accept, controller |-> <<c, k>>]

\* the first index of s that holds one of chars, Len(s) + 1 when none does
IndexOfAny(s, chars) ==
    LET hits == {k \in DOMAIN s : s[k] \in chars} IN
    IF hits = {} THEN Len(s) + 1 ELSE CHOOSE k \in hits : \A l \in hits : k <= l

En == <<"e","n">>

\* normalizeIsoLanguageCode: undefined and the empty string are both <<>>
normalizeIsoLanguageCode(language) ==
    LET input == toLowerCase(IF language = <<>> THEN En ELSE language)
        primary == SubSeq(input, 1, IndexOfAny(input, {"-", "_"}) - 1)
    IN  IF primary = <<>> THEN En ELSE primary

\* the routing table of the invocations of the model: wolLanguages.mapping, a
\* function from language codes to entries; an entry field that is <<>> is
\* absent
wolLanguages == [c \in {En} |-> [lp |-> <<"e">>, rsconf |-> <<"r","1">>]]

\* resolveWolConfig that falls back to the language as it was given
resolveWolConfigAsGiven(language, mapping) ==
    LET norm == normalizeIsoLanguageCode(language)
        known == norm \in DOMAIN mapping
    IN  [lp |-> IF known /\ mapping[norm].lp # <<>> THEN mapping[norm].lp
                ELSE IF norm = En THEN <<"e">> ELSE language,
         rev |-> IF known /\ mapping[norm].rsconf # <<>> THEN mapping[norm].rsconf
                 ELSE <<"r","1">>]

\* resolveWolConfig, for the routing table mapping
resolveWolConfig(language, mapping) ==
    LET norm == normalizeIsoLanguageCode(language)
        known == norm \in DOMAIN mapping
    IN  [lp |-> IF known /\ mapping[norm].lp # <<>> THEN mapping[norm].lp
                ELSE IF norm = En THEN <<"e">> ELSE norm,
         rev |-> IF known /\ mapping[norm].rsconf # <<>> THEN mapping[norm].rsconf
                 ELSE <<"r","1">>]

\* WOL_ENDPOINTS.SEARCH with {lang}, {rev} and {lp} replaced
SearchEndpoint(lang, rev, lp) ==
    <<"h","t","t","p","s",":","/","/","w","o","l",".","j","w",".","o","r","g","/">> \o lang \o <<"/","w","o","l","/","s","/">> \o rev \o <<"/","l","p","-">> \o lp

\* the options of buildSearchURL that are absent hold: scope "par", no
\* publications, language "en", sort "occ", page 1
DefaultSearchOptions ==
    [hasScope |-> FALSE, scope |-> <<>>, hasPublications |-> FALSE, publications |-> <<>>,
     hasLanguage |-> FALSE, language |-> <<>>, hasSort |-> FALSE, sort |-> <<>>,
     hasPage |-> FALSE, page |-> 0]

\* the sort of the search URL
sortParam(sort) ==
    IF sort = <<"n","e","w","e","s","t">> THEN <<"n","e","w","e","s","t">>
    ELSE IF sort = <<"o","l","d","e","s","t">> THEN <<"o","l","d","e","s","t">> ELSE <<"o","c","c">>

\* URLBuilder.buildSearchURL as the string it returns, for the routing table
\* mapping
SearchHref(query, o, mapping) ==
    LET scope == IF o.hasScope THEN o.scope ELSE <<"p","a","r">>
        publications == IF o.hasPublications THEN o.publications ELSE <<>>
        language == IF o.hasLanguage THEN o.language ELSE En
        sort == IF o.hasSort THEN o.sort ELSE <<"o","c","c">>
        page == IF o.hasPage THEN o.page ELSE 1
        config == resolveWolConfig(language, mapping)
        params ==
            <<[k |-> <<"q">>, v |-> query], [k |-> <<"p">>, v |-> scope],
              [k |-> <<"r">>, v |-> sortParam(sort)], [k |-> <<"s","t">>, v |-> <<"a">>]>>
            \o [n \in DOMAIN publications |-> [k |-> <<"f","c","[","]">>, v |-> publications[n]]]
            \o (IF page > 1 THEN <<[k |-> <<"p","g">>, v |-> pageToString(page)]>> ELSE <<>>)
    IN  SearchEndpoint(language, config.rev, config.lp) \o <<"?">> \o ParamsToString(params)

HttpsScheme == <<"h","t","t","p","s",":","/","/">>

\* new URL(href) of an https URL: the host ends at the first "/", "?" or "#",
\* the path at the first "?" or "#", the query at the first "#"
ParseHref(href) ==
    LET rest == SubSeq(href, Len(HttpsScheme) + 1, Len(href))
        h == IndexOfAny(rest, {"/", "?", "#"})
        afterHost == SubSeq(rest, h, Len(rest))
        pa == IndexOfAny(afterHost, {"?", "#"})
        afterPath == SubSeq(afterHost, pa, Len(afterHost))
        q == IndexOfAny(afterPath, {"#"})
    IN  [valid |-> startsWith(href, HttpsScheme) /\ h > 1,
         hostname |-> toLowerCase(SubSeq(rest, 1, h - 1)),
         pathname |-> IF pa = 1 THEN <<"/">> ELSE SubSeq(afterHost, 1, pa - 1),
         search |-> IF afterPath # <<>> /\ afterPath[1] = "?"
                    THEN SubSeq(afterPath, 2, q - 1) ELSE <<>>]

\* the search URL of buildSearchURL for the options of search, which leave
\* scope, publications, language and sort absent
buildSearchURL(query, options) ==
    ParseHref(SearchHref(query,
                         [DefaultSearchOptions EXCEPT !.hasPage = options.hasPage,
                                                      !.page = options.page],
                         wolLanguages))

----------------------------------------------------------------------------
(* The invocation                                                          *)

\* what the operation keeps between its awaits
NoEnv == [documentUrl |-> NoURL, params |-> NoParams, vttUrl |-> NoURL,
          metadata |-> NoBody]

\* the promise of the operation, not settled
Pending == [state |-> "pending", value |-> NoValue, error |-> NoError]

Returned(v) == [state |-> "returned", value |-> v, error |-> NoError]
Thrown(e) == [state |-> "thrown", value |-> NoValue, error |-> e]

\* no operation was invoked
NoOperation ==
    /\ pc = "idle" /\ op = "none" /\ args = NoArgs /\ call = 0 /\ i = 0
    /\ log = <<>> /\ timers = {} /\ aborted = {} /\ requests = <<>>
    /\ waits = <<>> /\ response = NoResponse /\ env = NoEnv
    /\ caught = NoError /\ parsers = {} /\ outcome = Pending

Idle == NoOperation /\ frames = <<>>

Init ==
    /\ Idle
    /\ fin = NoURL /\ fout = <<>> /\ fstep = 0

\* the retries of the fetchWithRetry copy the operation uses
MaxRetries(o) == IF o = "getVideoSubtitles" THEN VIDEO_MAX_RETRIES ELSE WOL_MAX_RETRIES

RECURSIVE Pow2(_)
\* Math.pow(2, n), 2 ** n
Pow2(n) == IF n = 0 THEN 1 ELSE 2 * Pow2(n - 1)

\* a backoff of one second after every failed attempt
BackoffDelayFixed(k) == 1000

\* the delay of the backoff after failed attempt k, milliseconds
BackoffDelay(k) == Pow2(k) * 1000

\* the error a fetch rejects with on a network failure: a TypeError, which has
\* no code
NetworkFailure(c, k) ==
    [NewError("fetch failed") EXCEPT !.name = "TypeError", !.attempt = <<c, k>>]

\* the error a fetch rejects with when its signal is aborted: the signal's
\* reason, a DOMException named AbortError, whose legacy code is 20
AbortError(c, k) ==
    [NewError("This operation was aborted") EXCEPT
        !.name = "DOMException", !.code = "20", !.attempt = <<c, k>>]

\* the error response.text() rejects with
BodyReadError == [NewError("terminated") EXCEPT !.name = "TypeError"]

\* the error response.json() rejects with on a body that is no JSON
JsonSyntaxError == [NewError("Unexpected token") EXCEPT !.name = "SyntaxError"]

\* a catch block that gives a failure of the parser the kind PARSE_ERROR
TopCatchTypesParse(o, a, error) ==
    IF HasCode(error) THEN error
    ELSE IF error.inner = "parse"
    THEN At(1074, [createWOLError("PARSE_ERROR", "Document retrieval failed: ${error}",
                    [NoDetails EXCEPT !.has = {"url"}, !.url = a.url])
                    EXCEPT !.inner = error.text])
    ELSE At(1021, [createWOLError("NETWORK_ERROR", "Search failed: ${error}",
                    [NoDetails EXCEPT !.has = {"url"}, !.url = a.url])
                    EXCEPT !.inner = error.text])

\* the catch block of the operation: the error the operation throws for the
\* exception that reached it
TopCatch(o, a, error) ==
    IF HasCode(error) THEN error
    ELSE CASE o = "search" ->
                At(1021, [createWOLError("NETWORK_ERROR", "Search failed: ${error}",
                    [NoDetails EXCEPT !.has = {"query", "options"},
                                      !.query = a.query, !.options = a.options])
                    EXCEPT !.inner = error.text])
           [] o = "getDocumentByUrl" ->
                At(1074, [createWOLError("NETWORK_ERROR", "Document retrieval failed: ${error}",
                    [NoDetails EXCEPT !.has = {"url"}, !.url = a.url])
                    EXCEPT !.inner = error.text])
           [] OTHER ->
                At(587, [createWOLError("NETWORK_ERROR", "Failed to get video subtitles: ${error}",
                    [NoDetails EXCEPT !.has = {"url"}, !.url = a.url])
                    EXCEPT !.inner = error.text])

\* an exception reaches the catch block of the operation o called with a, and
\* the operation ends
Throw(o, a, error) ==
    /\ caught' = error
    /\ outcome' = Thrown(TopCatch(o, a, error))
    /\ pc' = "done"

\* the operation returns v
Return(v) ==
    /\ outcome' = Returned(v)
    /\ pc' = "done"
    /\ UNCHANGED caught

\* the loop test of fetchWithRetry
LoopTest(k, retries) == k < retries

\* the test of the catch block of fetchWithRetry for the last attempt
LastAttemptBug(k, retries) == k = retries
LastAttempt(k, retries) == k = retries - 1

\* fetchWithRetry of operation o (called with a) at its loop test with counter
\* k, in its call number c: a new controller, a new timer and the request, or
\* the throw after the loop
Attempt(o, a, c, k, url, accept) ==
    /\ call' = c
    /\ i' = k
    /\ IF LoopTest(k, MaxRetries(o))
       THEN /\ timers' = timers \cup {<<c, k>>}
            /\ requests' = Append(requests, Request(c, k, url, accept))
            /\ pc' = "fetching"
            /\ UNCHANGED <<caught, outcome>>
       ELSE /\ Throw(o, a, At(1168, NewError("Max retries exceeded")))
            /\ UNCHANGED <<timers, requests>>

\* the request in flight
InFlight == requests[Len(requests)]

\* an attempt threw: the catch block of the loop of fetchWithRetry
AttemptThrew(error) ==
    /\ log' = Append(log, [ok |-> FALSE, status |-> 0, error |-> error])
    /\ IF LastAttempt(i, MaxRetries(op))
       THEN /\ Throw(op, args, error)
            /\ UNCHANGED waits
       ELSE /\ pc' = "backoff"
            /\ waits' = Append(waits, BackoffDelay(i))
            /\ UNCHANGED <<caught, outcome>>

\* a fetchWithRetry that treats a 5xx response as a failed attempt
AttemptReturnedRetries5xx(status, body) ==
    /\ timers' = timers \ {<<call, i>>}
    /\ log' = Append(log, [ok |-> TRUE, status |-> status, error |-> NoError])
    /\ response' = [status |-> status, body |-> body]
    /\ IF status >= 500 /\ ~LastAttempt(i, MaxRetries(op))
       THEN pc' = "backoff" /\ waits' = Append(waits, BackoffDelay(i))
       ELSE pc' = "returned" /\ UNCHANGED waits
    /\ UNCHANGED <<caught, outcome>>

\* the fetch of the attempt resolves: clearTimeout and return response
AttemptReturned(status, body) ==
    /\ timers' = timers \ {<<call, i>>}
    /\ log' = Append(log, [ok |-> TRUE, status |-> status, error |-> NoError])
    /\ response' = [status |-> status, body |-> body]
    /\ pc' = "returned"
    /\ UNCHANGED <<waits, caught, outcome>>

----------------------------------------------------------------------------
(* fetchWithRetry                                                          *)

\* await fetch(...) resolves with a response of any status
FetchResolves(status, body) ==
    /\ pc = "fetching"
    /\ AttemptReturned(status, body)
    /\ UNCHANGED <<op, args, call, i, aborted, requests, env, parsers>>
    /\ UNCHANGED fvars

\* await fetch(...) rejects on a network failure; the timer of the attempt
\* is not cleared
FetchFails ==
    /\ pc = "fetching"
    /\ AttemptThrew(NetworkFailure(call, i))
    /\ UNCHANGED <<op, args, call, i, timers, aborted, requests, response, env, parsers>>
    /\ UNCHANGED fvars

\* a timer expires and aborts its controller; the fetch that holds the signal
\* of that controller, if it is in flight, rejects
TimerFires(id) ==
    /\ id \in timers
    /\ timers' = timers \ {id}
    /\ aborted' = aborted \cup {id}
    /\ IF pc = "fetching" /\ InFlight.controller = id
       THEN AttemptThrew(AbortError(call, i))
       ELSE UNCHANGED <<pc, log, waits, caught, outcome>>
    /\ UNCHANGED <<op, args, call, i, requests, response, env, parsers>>
    /\ UNCHANGED fvars

\* the backoff timer expires: the next iteration of the loop
BackoffElapses ==
    /\ pc = "backoff"
    /\ Attempt(op, args, call, i + 1, InFlight.url, InFlight.accept)
    /\ UNCHANGED <<op, args, log, aborted, waits, response, env, parsers>>
    /\ UNCHANGED fvars

----------------------------------------------------------------------------
(* WOLService.search                                                       *)

HtmlAccept == "text/html,application/xhtml+xml,application/xml;q=0.9,*/*;q=0.8"

\* a search that validates the query whatever useOperators is
CallSearchAlwaysValidates(query, options) ==
    LET a == [NoArgs EXCEPT !.query = query, !.options = options] IN
    /\ pc = "idle"
    /\ op' = "search"
    /\ args' = a
    /\ IF ~validateOperators(query)
       THEN /\ Throw("search", a, At(963, createWOLError("INVALID_QUERY",
                    "Invalid characters or operators in query",
                    [NoDetails EXCEPT !.has = {"query"}, !.query = query])))
            /\ UNCHANGED <<call, i, timers, requests>>
       ELSE Attempt("search", a, 1, 0, buildSearchURL(query, options), HtmlAccept)
    /\ UNCHANGED <<log, aborted, waits, response, env, parsers>>
    /\ UNCHANGED fvars

\* search up to its first await
CallSearch(query, options) ==
    LET a == [NoArgs EXCEPT !.query = query, !.options = options] IN
    /\ pc = "idle"
    /\ op' = "search"
    /\ args' = a
    /\ IF ~validateOperators(query) /\ options.useOperators = "true"
       THEN /\ Throw("search", a, At(963, createWOLError("INVALID_QUERY",
                    "Invalid characters or operators in query",
                    [NoDetails EXCEPT !.has = {"query"}, !.query = query])))
            /\ UNCHANGED <<call, i, timers, requests>>
       ELSE Attempt("search", a, 1, 0, buildSearchURL(query, options), HtmlAccept)
    /\ UNCHANGED <<log, aborted, waits, response, env, parsers>>
    /\ UNCHANGED fvars

\* search resumes with the response and awaits response.text()
SearchResumes ==
    /\ pc = "returned" /\ op = "search"
    /\ pc' = "search_text"
    /\ UNCHANGED <<op, args, call, i, log, timers, aborted, requests, waits,
                   response, env, caught, parsers, outcome>>
    /\ UNCHANGED fvars

\* the SearchResponse of a 404
EmptySearchResponse(options) ==
    [NoValue EXCEPT !.kind = "SearchResponse",
        !.pagination = [totalResults |-> 0, pageSize |-> 40, totalPages |-> 1,
                        currentPage |-> IF options.hasPage THEN options.page ELSE 1]]

\* a SearchResponse whose limit cuts the whole list of results
LimitedSearchResponseCutsAll(parsed, options) ==
    [NoValue EXCEPT !.kind = "SearchResponse",
        !.results = IF options.hasLimit /\ options.limit # 0
                    THEN Slice(parsed.results, options.limit) ELSE parsed.results,
        !.pagination = parsed.pagination]

\* the SearchResponse of a parsed page
LimitedSearchResponse(parsed, options) ==
    LET keyPublications == SelectSeq(parsed.results, LAMBDA r : r = "key_publication")
        documentResults == SelectSeq(parsed.results, LAMBDA r : r = "document_result")
        limitedDocuments == IF options.hasLimit /\ options.limit # 0
                            THEN Slice(documentResults, options.limit)
                            ELSE documentResults
    IN  [NoValue EXCEPT !.kind = "SearchResponse",
            !.results = keyPublications \o limitedDocuments,
            !.pagination = parsed.pagination]

\* response.text() settles, and search runs to its end
SearchTextSettles ==
    /\ pc = "search_text"
    /\ IF ~response.body.readable
       THEN Throw(op, args, BodyReadError) /\ UNCHANGED parsers
       ELSE IF response.status = 404
       THEN Return(EmptySearchResponse(args.options)) /\ UNCHANGED parsers
       ELSE IF response.status = 502 \/ response.status = 503
       THEN /\ Throw(op, args, At(990, createWOLError("SERVICE_UNAVAILABLE",
                    "WOL service temporarily unavailable",
                    [NoDetails EXCEPT !.has = {"status"}, !.status = response.status])))
            /\ UNCHANGED parsers
       ELSE /\ parsers' = parsers \cup {"parseSearchResults"}
            /\ Return(LimitedSearchResponse(parseSearchResults(response.body),
                                            args.options))
    /\ UNCHANGED <<op, args, call, i, log, timers, aborted, requests, waits,
                   response, env>>
    /\ UNCHANGED fvars

----------------------------------------------------------------------------
(* WOLService.getDocumentByUrl                                             *)

\* getDocumentByUrl up to its first await
CallGetDocumentByUrl(url) ==
    LET a == [NoArgs EXCEPT !.url = url]
        v == validateAndNormalizeDocumentURL(url)
    IN
    /\ pc = "idle"
    /\ op' = "getDocumentByUrl"
    /\ args' = a
    /\ IF ~v.ok
       THEN /\ Throw("getDocumentByUrl", a, v.error)
            /\ UNCHANGED <<call, i, timers, requests, env>>
       ELSE /\ env' = [env EXCEPT !.documentUrl = v.url]
            /\ Attempt("getDocumentByUrl", a, 1, 0, v.url, HtmlAccept)
    /\ UNCHANGED <<log, aborted, waits, response, parsers>>
    /\ UNCHANGED fvars

\* getDocumentByUrl resumes with the response, classifies its status and
\* awaits response.text()
DocResumes ==
    /\ pc = "returned" /\ op = "getDocumentByUrl"
    /\ IF response.status = 404
       THEN Throw(op, args, At(1038, createWOLError("NOT_FOUND", "Document not found",
                    [NoDetails EXCEPT !.has = {"url"}, !.url = env.documentUrl])))
       ELSE IF response.status = 502 \/ response.status = 503
       THEN Throw(op, args, At(1044, createWOLError("SERVICE_UNAVAILABLE",
                    "WOL service temporarily unavailable",
                    [NoDetails EXCEPT !.has = {"status"}, !.status = response.status])))
       ELSE pc' = "doc_text" /\ UNCHANGED <<caught, outcome>>
    /\ UNCHANGED <<op, args, call, i, log, timers, aborted, requests, waits,
                   response, env, parsers>>
    /\ UNCHANGED fvars

\* response.text() settles, and getDocumentByUrl runs to its end
DocTextSettles ==
    /\ pc = "doc_text"
    /\ IF ~response.body.readable
       THEN Throw(op, args, BodyReadError) /\ UNCHANGED parsers
       ELSE /\ parsers' = parsers \cup {"parseDocument"}
            /\ IF response.body.parseThrows
               THEN Throw(op, args, [At(425, NewError("Failed to parse document: ${error}"))
                                        EXCEPT !.inner = "parse"])
               ELSE Return([NoValue EXCEPT !.kind = "Document",
                                           !.url = env.documentUrl])
    /\ UNCHANGED <<op, args, call, i, log, timers, aborted, requests, waits,
                   response, env>>
    /\ UNCHANGED fvars

----------------------------------------------------------------------------
(* VideoService.getVideoSubtitles                                          *)

Formats == {"vtt", "text", "both"}

\* the string of the type of a ParsedVideoParams, a parameter name
TypeName(type) == IF type = "pub" THEN <<"p","u","b">> ELSE <<"d","o","c","i","d">>

\* a metadata URL that carries the id under pub and under docid
MetadataURLBothNames(params) ==
    [valid |-> TRUE, hostname |-> <<"b",".","j","w","-","c","d","n",".","o","r","g">>, pathname |-> <<"/","a","p","i","s","/","p","u","b","-","m","e","d","i","a","/","G","E","T","P","U","B","M","E","D","I","A","L","I","N","K","S">>,
     search |-> ParamsToString(
        <<[k |-> <<"o","u","t","p","u","t">>, v |-> <<"j","s","o","n">>],
          [k |-> <<"p","u","b">>, v |-> params.id],
          [k |-> <<"d","o","c","i","d">>, v |-> params.id],
          [k |-> <<"t","r","a","c","k">>, v |-> params.track],
          [k |-> <<"l","a","n","g","w","r","i","t","t","e","n">>, v |-> params.language],
          [k |-> <<"t","x","t","C","M","S","L","a","n","g">>, v |-> params.language]>>)]

\* the URL fetchVideoMetadata requests: JW_PUBMEDIA_API with its parameters
MetadataURL(params) ==
    [valid |-> TRUE, hostname |-> <<"b",".","j","w","-","c","d","n",".","o","r","g">>, pathname |-> <<"/","a","p","i","s","/","p","u","b","-","m","e","d","i","a","/","G","E","T","P","U","B","M","E","D","I","A","L","I","N","K","S">>,
     search |-> ParamsToString(
        <<[k |-> <<"o","u","t","p","u","t">>, v |-> <<"j","s","o","n">>],
          [k |-> TypeName(params.type), v |-> params.id],
          [k |-> <<"t","r","a","c","k">>, v |-> params.track],
          [k |-> <<"l","a","n","g","w","r","i","t","t","e","n">>, v |-> params.language],
          [k |-> <<"t","x","t","C","M","S","L","a","n","g">>, v |-> params.language]>>)]

\* firstVideo.subtitles.url of the metadata of the model
SubtitlesURL == [valid |-> TRUE, hostname |-> <<"d","o","w","n","l","o","a","d","-","a",".","a","k","a","m","a","i","h","d",".","n","e","t">>, pathname |-> <<"/","a",".","v","t","t">>,
                 search |-> <<>>]

\* getVideoSubtitles up to its first await: parseVideoUrl, and
\* fetchVideoMetadata up to its fetch
CallGetVideoSubtitles(url, format, window) ==
    LET a == [NoArgs EXCEPT !.url = url, !.format = format,
                            !.hasStart = window.hasStart, !.startTime = window.startTime,
                            !.hasEnd = window.hasEnd, !.endTime = window.endTime]
        p == parseVideoUrl(url)
    IN
    /\ pc = "idle"
    /\ op' = "getVideoSubtitles"
    /\ args' = a
    /\ IF ~p.ok
       THEN /\ Throw("getVideoSubtitles", a, p.error)
            /\ UNCHANGED <<call, i, timers, requests, env>>
       ELSE /\ env' = [env EXCEPT !.params = p.params]
            /\ Attempt("getVideoSubtitles", a, 1, 0, MetadataURL(p.params),
                       "application/json")
    /\ UNCHANGED <<log, aborted, waits, response, parsers>>
    /\ UNCHANGED fvars

\* fetchVideoMetadata resumes with the response, classifies its status and
\* awaits response.json()
MetadataResumes ==
    /\ pc = "returned" /\ op = "getVideoSubtitles" /\ call = 1
    /\ IF ~ResponseOk(response.status)
       THEN IF response.status = 404
            THEN Throw(op, args, At(680, createWOLError("NOT_FOUND", "Video not found",
                    [NoDetails EXCEPT !.has = {env.params.type, "track", "language"},
                                      !.language = env.params.language])))
            ELSE Throw(op, args, At(686, createWOLError("SERVICE_UNAVAILABLE",
                    "API request failed: ${response.status}",
                    [NoDetails EXCEPT !.has = {env.params.type, "track", "language"},
                                      !.language = env.params.language])))
       ELSE pc' = "video_json" /\ UNCHANGED <<caught, outcome>>
    /\ UNCHANGED <<op, args, call, i, log, timers, aborted, requests, waits,
                   response, env, parsers>>
    /\ UNCHANGED fvars

\* response.json() settles: getVideoSubtitles selects the first video and
\* runs fetchVttContent up to its fetch
MetadataJsonSettles ==
    LET metadata == response.body IN
    /\ pc = "video_json"
    /\ IF ~metadata.readable
       THEN Throw(op, args, BodyReadError) /\ UNCHANGED <<call, i, log, timers, requests, env>>
       ELSE IF metadata.parseThrows
       THEN Throw(op, args, JsonSyntaxError) /\ UNCHANGED <<call, i, log, timers, requests, env>>
       ELSE IF ~metadata.hasFiles
       THEN /\ Throw(op, args, [NewError("Cannot read properties of undefined")
                                    EXCEPT !.name = "TypeError"])
            /\ UNCHANGED <<call, i, log, timers, requests, env>>
       ELSE IF ~metadata.hasLang \/ Len(metadata.mp4) = 0
       THEN /\ Throw(op, args, At(520, createWOLError("NOT_FOUND",
                    "No video files found for the specified language",
                    [NoDetails EXCEPT !.has = {"url", "language"}, !.url = args.url,
                                      !.language = env.params.language])))
            /\ UNCHANGED <<call, i, log, timers, requests, env>>
       ELSE IF ~metadata.mp4[1]
       THEN /\ Throw(op, args, At(532, createWOLError("NOT_FOUND",
                    "No subtitles available for this video",
                    [NoDetails EXCEPT !.has = {"url", "title"}, !.url = args.url])))
            /\ UNCHANGED <<call, i, log, timers, requests, env>>
       ELSE /\ env' = [env EXCEPT !.metadata = metadata, !.vttUrl = SubtitlesURL]
            /\ log' = <<>>
            /\ Attempt(op, args, 2, 0, SubtitlesURL, "text/vtt")
    /\ UNCHANGED <<op, args, aborted, waits, response, parsers>>
    /\ UNCHANGED fvars

\* fetchVttContent resumes with the response and awaits response.text()
VttResumes ==
    /\ pc = "returned" /\ op = "getVideoSubtitles" /\ call = 2
    /\ IF ~ResponseOk(response.status)
       THEN Throw(op, args, At(707, createWOLError("NOT_FOUND",
                    "Failed to fetch subtitle file",
                    [NoDetails EXCEPT !.has = {"vttUrl"}, !.url = env.vttUrl])))
       ELSE pc' = "video_text" /\ UNCHANGED <<caught, outcome>>
    /\ UNCHANGED <<op, args, call, i, log, timers, aborted, requests, waits,
                   response, env, parsers>>
    /\ UNCHANGED fvars

\* the startTime and endTime a caller can pass, in thousandths of a second:
\* none, or one of them, or both
VideoWindows ==
    {[hasStart |-> FALSE, startTime |-> 0, hasEnd |-> FALSE, endTime |-> 0],
     [hasStart |-> TRUE, startTime |-> 12000, hasEnd |-> FALSE, endTime |-> 0],
     [hasStart |-> TRUE, startTime |-> 16000, hasEnd |-> TRUE, endTime |-> 20000]}

\* the vttContent getVideoSubtitles cleans and converts: the subtitle file,
\* filtered when a startTime or an endTime is given
WindowedVtt(a, duration, vttContent) ==
    IF a.hasStart \/ a.hasEnd
    THEN filterVttByTimeRange(vttContent,
                              Num(IF a.hasStart THEN a.startTime ELSE 0),
                              Num(IF a.hasEnd THEN a.endTime ELSE duration))
    ELSE vttContent

\* a result with both texts, whatever the format
SubtitleResultUnmasked(format, vttUrl, cleanedVtt, plainText) ==
    [NoValue EXCEPT !.kind = "VideoSubtitleResult", !.url = vttUrl,
                    !.rawVtt = cleanedVtt, !.plainText = plainText]

\* the VideoSubtitleResult returned: the subtitles, masked by format
SubtitleResult(format, vttUrl, cleanedVtt, plainText) ==
    [NoValue EXCEPT !.kind = "VideoSubtitleResult", !.url = vttUrl,
                    !.rawVtt = IF format = "text" THEN <<>> ELSE cleanedVtt,
                    !.plainText = IF format = "vtt" THEN <<>> ELSE plainText]

\* response.text() settles, and getVideoSubtitles runs to its end
VttTextSettles ==
    LET vttContent == WindowedVtt(args, env.metadata.duration, VttText(response.body)) IN
    /\ pc = "video_text"
    /\ IF ~response.body.readable
       THEN Throw(op, args, BodyReadError)
       ELSE Return(SubtitleResult(args.format, env.vttUrl, cleanVtt(vttContent),
                                  vttToPlainText(vttContent)))
    /\ UNCHANGED <<op, args, call, i, log, timers, aborted, requests, waits,
                   response, env, parsers>>
    /\ UNCHANGED fvars

----------------------------------------------------------------------------
(* The invocation of one public operation and its upstream                 *)

\* the bodies upstream can answer the request in flight with
Bodies ==
    CASE op = "search" -> SearchBodies
      [] op = "getDocumentByUrl" -> DocBodies
      [] op = "getVideoSubtitles" /\ call = 1 -> MetaBodies
      [] OTHER -> VttBodies

----------------------------------------------------------------------------
(* WOLService.browsePublications                                           *)

\* the number of entries of PUBLICATION_NAMES
PublicationTypes == 23

\* browsePublications: the publication of the type given, or one for every
\* entry of PUBLICATION_NAMES; it awaits nothing
CallBrowsePublications(hasType) ==
    /\ pc = "idle"
    /\ op' = "browsePublications"
    /\ args' = NoArgs
    /\ Return([NoValue EXCEPT !.kind = "Publication[]",
                              !.results = Rep(IF hasType THEN 1 ELSE PublicationTypes,
                                              "publication")])
    /\ UNCHANGED <<call, i, log, timers, aborted, requests, waits, response, env,
                   caught, parsers>>
    /\ UNCHANGED fvars

Next ==
    \/ \E q \in Queries, o \in Options : CallSearch(q, o)
    \/ \E t \in BOOLEAN : CallBrowsePublications(t)
    \/ \E u \in DocURLs : CallGetDocumentByUrl(u)
    \/ \E u \in VideoURLs, f \in Formats, w \in VideoWindows :
          CallGetVideoSubtitles(u, f, w)
    \/ \E st \in Statuses, b \in Bodies : FetchResolves(st, b)
    \/ FetchFails
    \/ \E id \in timers : TimerFires(id)
    \/ BackoffElapses
    \/ SearchResumes
    \/ SearchTextSettles
    \/ DocResumes
    \/ DocTextSettles
    \/ MetadataResumes
    \/ MetadataJsonSettles
    \/ VttResumes
    \/ VttTextSettles

Spec == Init /\ [][Next]_vars

----------------------------------------------------------------------------
(* validateAndNormalizeDocumentURL applied to a URL, and to its own output  *)

\* the longest query string of the URLs of UrlSpec, in elements
MaxQueryLen == 4

QueryToks == {"q", "p", "x", "=", "&", "+", "%26"}

\* longer query strings: escapes in kept values, repeated and dropped names
LongQueries == {<<"x","=","1","&","q","=","%26","&","p","=","+","&","Q","=","2">>, <<"p","=","a","%3D","b","&","q","=","a","+","b","&","q","=","c","&","&">>, <<"l","a","n","g","=","E","&","q","=","%25","%2B">>}

QueryStrings == UNION {[1..n -> QueryToks] : n \in 0..MaxQueryLen} \cup LongQueries

UrlHosts == {<<"w","o","l",".","j","w",".","o","r","g">>, <<"W","O","L",".","J","W",".","O","R","G">>, <<"j","w",".","o","r","g">>, <<"w","w","w",".","j","w",".","o","r","g">>, <<"e","v","i","l","w","o","l","j","w",".","o","r","g">>, <<"w","o","l",".","e","x","a","m","p","l","e",".","c","o","m">>, <<"w","o","l",".","j","w",".","o","r","g",".","e","v","i","l",".","c","o","m">>, <<"w","o","l","-","j","w",".","o","r","g">>}

UrlPaths == {<<"/","e","n","/","w","o","l","/","d","/","r","1","/","l","p","-","e","/","1">>, <<"/","E","N","/","W","O","L","/","D","/","1">>, <<"/","e","n","/","w","o","l","/","s","/","r","1","/","l","p","-","e">>, <<"/","w","o","l","/","d">>, <<"/">>}

UrlInputs ==
    {[valid |-> v, hostname |-> h, pathname |-> pa, search |-> <<"q","=","a","&","x","=","1">>] :
        v \in BOOLEAN, h \in UrlHosts, pa \in UrlPaths}
    \cup
    {[valid |-> TRUE, hostname |-> WolHost, pathname |-> DocPath, search |-> q] :
        q \in QueryStrings}

\* the result of no application
NoValidation == [ok |-> FALSE, url |-> NoURL, error |-> NoError]

UrlInit ==
    /\ Idle
    /\ fin \in UrlInputs /\ fout = <<>> /\ fstep = 0

\* validateAndNormalizeDocumentURL(fin)
Validate ==
    /\ fstep = 0
    /\ fout' = <<validateAndNormalizeDocumentURL(fin)>>
    /\ fstep' = 1
    /\ UNCHANGED <<fin, frames, svars>>

\* validateAndNormalizeDocumentURL applied to the URL it returned
Revalidate ==
    /\ fstep = 1 /\ fout[1].ok
    /\ fout' = Append(fout, validateAndNormalizeDocumentURL(fout[1].url))
    /\ fstep' = 2
    /\ UNCHANGED <<fin, frames, svars>>

UrlNext == Validate \/ Revalidate

UrlSpec == UrlInit /\ [][UrlNext]_vars

----------------------------------------------------------------------------
(* parseVideoUrl applied to a URL                                          *)

LankPrefixes == {<<"p","u","b","-">>, <<"P","U","B","-">>, <<"d","o","c","i","d","-">>, <<"D","o","c","I","d","-">>, <<"p","u","b">>, <<"v","i","d","-">>}
LankIds == {<<"a">>, <<"j","w","b","-","1","3","3">>, <<"1","2">>, <<"a",".","b">>, <<>>}
LankSeps == {<<"_">>, <<"-">>}
LankTracks == {<<"1">>, <<"1","_","2">>, <<>>, <<"%0A">>, <<"x","_","V","I","D","E","O">>}
LankSuffixes == {<<"_","V","I","D","E","O">>, <<"_","v","i","d","e","o">>, <<"_","V","I","D","E","O","S">>, <<>>}

\* the identifiers of the URLs of VideoUrlSpec
Lanks ==
    {Concat(<<pre, id, sep, tr, suf>>) :
        pre \in LankPrefixes, id \in LankIds, sep \in LankSeps,
        tr \in LankTracks, suf \in LankSuffixes}

LocaleParts == {<<"w","t","l","o","c","a","l","e","=","E","&">>, <<"a","p","p","L","a","n","g","u","a","g","e","=","T","&">>, <<"w","t","l","o","c","a","l","e","=","&","a","p","p","L","a","n","g","u","a","g","e","=","T","&">>, <<"w","t","l","o","c","a","l","e","=","E","&","a","p","p","L","a","n","g","u","a","g","e","=","T","&">>, <<"l","o","c","a","l","e","=","E","&">>, <<>>}
LankKeys == {<<"l","a","n","k","=">>, <<"i","t","e","m","=">>, <<"l","a","n","k","=","&","i","t","e","m","=">>, <<"l","a","n","k","=","x","y","z","&","i","t","e","m","=">>, <<"i","d","=">>}

VideoUrlInputs ==
    {[valid |-> v, hostname |-> <<"w","w","w",".","j","w",".","o","r","g">>, pathname |-> <<"/","f","i","n","d","e","r">>,
      search |-> <<"w","t","l","o","c","a","l","e","=","E">> \o <<"&">> \o <<"l","a","n","k","=">> \o l] : v \in BOOLEAN, l \in Lanks}
    \cup
    {[valid |-> TRUE, hostname |-> <<"w","w","w",".","j","w",".","o","r","g">>, pathname |-> <<"/","f","i","n","d","e","r">>,
      search |-> lo \o k \o <<"p","u","b","-","j","w","b","v","o","d","2","5","_","4","1","_","V","I","D","E","O">>] : lo \in LocaleParts, k \in LankKeys}

VideoUrlInit ==
    /\ Idle
    /\ fin \in VideoUrlInputs /\ fout = <<>> /\ fstep = 0

\* parseVideoUrl(fin)
ParseVideoUrl ==
    /\ fstep = 0
    /\ fout' = <<parseVideoUrl(fin)>>
    /\ fstep' = 1
    /\ UNCHANGED <<fin, frames, svars>>

VideoUrlNext == ParseVideoUrl

VideoUrlSpec == VideoUrlInit /\ [][VideoUrlNext]_vars

----------------------------------------------------------------------------
(* filterVttByTimeRange applied to a subtitle file and a window            *)

\* the cues of the subtitle files of VttFilterSpec, times in thousandths
FileCues ==
    {[start |-> 10000, end |-> 15000, long |-> FALSE, id |-> TRUE, settings |-> TRUE,
      text |-> <<TextLine1>>],
     [start |-> 10000, end |-> 15000, long |-> TRUE, id |-> FALSE, settings |-> FALSE,
      text |-> <<TextLine1, TextLine2>>],
     [start |-> 0, end |-> 4999, long |-> FALSE, id |-> FALSE, settings |-> FALSE,
      text |-> <<TextLine2>>],
     [start |-> 15001, end |-> 16500, long |-> TRUE, id |-> TRUE, settings |-> FALSE,
      text |-> <<>>],
     [start |-> 3599000, end |-> 3605250, long |-> TRUE, id |-> FALSE, settings |-> TRUE,
      text |-> <<TextLine2, TextLine1>>],
     [start |-> 20000, end |-> 61000, long |-> FALSE, id |-> FALSE, settings |-> FALSE,
      text |-> <<TextLine1>>]}

\* the most cues of a subtitle file of the model
MaxCues == 2

CueLists == UNION {[1..n -> FileCues] : n \in 0..MaxCues}

\* the windows [startTime, endTime] of the model, in thousandths of a second
Windows ==
    {<<5000, 12000>>, <<12000, 20000>>, <<0, 100000>>, <<0, 5000>>, <<16000, 20000>>,
     <<15000, 15000>>, <<3600000, 3700000>>, <<4999, 9999>>}

VttFilterInputs ==
    {[note |-> nt, cues |-> cs, startTime |-> w[1], endTime |-> w[2]] :
        nt \in BOOLEAN, cs \in CueLists, w \in Windows}

VttFilterInit ==
    /\ Idle
    /\ fin \in VttFilterInputs /\ fout = <<>> /\ fstep = 0

\* filterVttByTimeRange(vttContent, startTime, endTime)
FilterVtt ==
    /\ fstep = 0
    /\ fout' = <<filterVttByTimeRange(VttFile(fin.note, fin.cues),
                                      Num(fin.startTime), Num(fin.endTime))>>
    /\ fstep' = 1
    /\ UNCHANGED <<fin, frames, svars>>

VttFilterNext == FilterVtt

VttFilterSpec == VttFilterInit /\ [][VttFilterNext]_vars

----------------------------------------------------------------------------
(* vttToPlainText applied to a subtitle file                               *)

\* the lines of cue text of the subtitle files of PlainTextSpec
PlainLines ==
    {<<"H","e","l","l","o",",">>,
     <<"<","i",">","w","o","r","l","d",".","<","/","i",">">>,
     <<"<","i",">","1","9","1","4","<","/","i",">">>,
     <<"4","2">>,
     <<"-","-","<","b",">",">","<","/","b",">">>,
     <<"W","E","B","\\","V","T","T">>,
     <<"{","x","}"," ","l","i","n","e",":","9","0","%">>,
     <<"\"","G","o","!","\"">>,
     <<"a","<",">","b">>,
     <<"b">>,
     <<"a","l","i","g","n",":","l","e","f","t">>}

\* the most text lines of a subtitle file of PlainTextSpec
MaxTextLines == 2

\* a cue of the text lines, at second k
TextCue(k, text) ==
    [start |-> 1000 * k, end |-> 1000 * k + 900, long |-> FALSE, id |-> TRUE,
     settings |-> TRUE, text |-> text]

\* the subtitle files: the text lines in one cue, or one cue for each of them
PlainTextInputs ==
    {[lines |-> ls, oneCue |-> b] :
        ls \in UNION {[1..n -> PlainLines] : n \in 0..MaxTextLines}, b \in BOOLEAN}

PlainTextFile(in) ==
    VttFile(FALSE, IF in.oneCue THEN <<TextCue(1, in.lines)>>
                   ELSE [k \in DOMAIN in.lines |-> TextCue(k, <<in.lines[k]>>)])

PlainTextInit ==
    /\ Idle
    /\ fin \in PlainTextInputs /\ fout = <<>> /\ fstep = 0

\* vttToPlainText(vttContent)
VttToPlainText ==
    /\ fstep = 0
    /\ fout' = <<vttToPlainText(PlainTextFile(fin))>>
    /\ fstep' = 1
    /\ UNCHANGED <<fin, frames, svars>>

PlainTextNext == VttToPlainText

PlainTextSpec == PlainTextInit /\ [][PlainTextNext]_vars

----------------------------------------------------------------------------
(* parseSearchResults applied to the results count of a page               *)

\* the largest count written without separators
MaxTotal == 81

\* counts of a thousand and more
LargeTotals == {1000, 1234, 40000, 40001}

RECURSIVE Grouped(_, _)
\* n written with sep between its groups of three digits
Grouped(n, sep) ==
    IF n < 1000 THEN pageToString(n)
    ELSE Grouped(n \div 1000, sep) \o sep \o Pad3(n % 1000)

ResultsWord == <<" ","r","e","s","u","l","t","s">>

\* the text of #resultsCount: the count alone or within words, a large count
\* with and without separators, and a text without a count
CountTexts ==
    {[total |-> n, text |-> lead \o pageToString(n) \o trail] :
        n \in 0..MaxTotal, lead \in {<<>>, <<"\n"," ">>}, trail \in {<<>>, ResultsWord}}
    \cup
    {[total |-> n, text |-> Grouped(n, sep) \o ResultsWord] :
        n \in LargeTotals, sep \in {<<>>, <<",">>, <<".">>}}
    \cup
    {[total |-> 0, text |-> t] : t \in {<<>>, <<"N","o",",", " ">> \o ResultsWord}}

PaginationInit ==
    /\ Idle
    /\ fin \in CountTexts /\ fout = <<>> /\ fstep = 0

\* the pagination parseSearchResults computes from the page
ParsePagination ==
    /\ fstep = 0
    /\ fout' = <<Pagination(totalResultsOf(fin.text), 1)>>
    /\ fstep' = 1
    /\ UNCHANGED <<fin, frames, svars>>

PaginationNext == ParsePagination

PaginationSpec == PaginationInit /\ [][PaginationNext]_vars

----------------------------------------------------------------------------
(* parseDocument applied to the navigation bar and the breadcrumbs of a page *)

UnknownPublication == <<"U","n","k","n","o","w","n"," ","P","u","b","l","i","c","a","t","i","o","n">>

\* the segments of the text of the breadcrumbs:
\* txt.split("\n").map((s) => s.trim()).filter(Boolean).join(" / ")
crumbSegments(txt) ==
    LET pieces == Split(txt, "\n")
        trimmed == [k \in DOMAIN pieces |-> trim(pieces[k])]
    IN  Join(SelectSeq(trimmed, LAMBDA piece : piece # <<>>), <<" ", "/", " ">>)

\* the publication the breadcrumbs of the page give in place of before
crumbPublication(page, before) ==
    IF page.hasCrumb /\ trim(page.crumbText) # <<>>
    THEN crumbSegments(trim(page.crumbText))
    ELSE before

\* publication of parseDocument, for a page with or without the list of the
\* navigation bar, the text of its publication title (empty without the
\* node), and with or without breadcrumbs and their text
publicationOf(page) ==
    IF page.hasNav
    THEN LET pubName == trim(page.pubTitle)
             publication == IF pubName # <<>> THEN pubName ELSE UnknownPublication
         IN  IF publication = <<>> THEN crumbPublication(page, publication)
             ELSE publication
    ELSE crumbPublication(page, UnknownPublication)

\* the texts of the publication title and of the breadcrumbs of the pages
PubTitleTexts == {<<>>, <<" ">>, <<"W","a","t","c","h","t","o","w","e","r">>, <<" ","w","2","4"," ">>, <<"A","w","a","k","e","!","\n">>, <<"I","n","s","i","g","h","t",","," ","V","o","l","u","m","e"," ","1">>, <<"\n","\n">>}
CrumbTexts == {<<>>, <<" ","\n"," ">>, <<"H","o","m","e">>, <<"H","o","m","e","\n"," ","L","i","b","r","a","r","y"," ","\n">>, <<"A","\n","\n","B">>, <<" ","H","o","m","e","\n","	","B","o","o","k","s","\n"," "," ","I","n","s","i","g","h","t"," ">>, <<"\n","x">>}

\* the pages: a page without the list of the navigation bar has no
\* publication title, a page without breadcrumbs no text of them
PublicationPages ==
    {[hasNav |-> n, pubTitle |-> t, hasCrumb |-> c, crumbText |-> x] :
        n \in BOOLEAN, t \in PubTitleTexts, c \in BOOLEAN, x \in CrumbTexts}

PublicationInit ==
    /\ Idle
    /\ fin \in {page \in PublicationPages :
                    /\ ~page.hasNav => page.pubTitle = <<>>
                    /\ ~page.hasCrumb => page.crumbText = <<>>}
    /\ fout = <<>> /\ fstep = 0

\* the publication parseDocument computes from the page
ParsePublication ==
    /\ fstep = 0
    /\ fout' = <<publicationOf(fin)>>
    /\ fstep' = 1
    /\ UNCHANGED <<fin, frames, svars>>

PublicationNext == ParsePublication

PublicationSpec == PublicationInit /\ [][PublicationNext]_vars

----------------------------------------------------------------------------
(* parseDocument applied to the links and images of the content root        *)

\* new URL(documentUrl).origin of an https URL without a port
originOf(documentUrl) == HttpsScheme \o NewURL(documentUrl).hostname

\* a value that is prefixed with the origin whatever it starts with
absoluteOfAlways(origin, chosen) == origin \o chosen

\* chosen.startsWith("/") ? `${origin}${chosen}` : chosen
absoluteOf(origin, chosen) ==
    IF startsWith(chosen, <<"/">>) THEN origin \o chosen ELSE chosen

BibleCitationPath == <<"/","w","o","l","/","b","c">>

\* the element after the three passes over the content root: the href of a
\* link is made absolute, a link to a Bible citation is replaced by its
\* trimmed text, and the src of an image is set to the first of src,
\* data-src and data-img-small-src that has a value, made absolute; an
\* attribute without a value is the empty string
normalizeElement(el, origin) ==
    CASE el.tag = "a" ->
            LET href == IF el.href # <<>> THEN absoluteOf(origin, el.href) ELSE el.href
            IN  IF includes(href, BibleCitationPath)
                THEN [el EXCEPT !.tag = "text", !.href = <<>>, !.text = trim(el.text)]
                ELSE [el EXCEPT !.href = href]
      [] el.tag = "img" ->
            LET chosen == IF el.src # <<>> THEN el.src
                          ELSE IF el.dataSrc # <<>> THEN el.dataSrc ELSE el.small
            IN  IF chosen = <<>> THEN el
                ELSE [el EXCEPT !.src = absoluteOf(origin, chosen)]
      [] OTHER -> el

\* the elements of the content root after the passes
normalizeRoot(elements, origin) ==
    [k \in DOMAIN elements |-> normalizeElement(elements[k], origin)]

\* the most elements of a content root
MaxElements == 2

LinkHrefs == {<<>>, <<"/","e","n","/","w","o","l","/","d","/","r","1","/","l","p","-","e","/","2">>, <<"/">>, <<"h","t","t","p","s",":","/","/","w","o","l",".","j","w",".","o","r","g","/","e","n","/","w","o","l","/","d","/","r","1","/","l","p","-","e","/","2">>, <<"h","t","t","p",":","/","/","e","x","a","m","p","l","e",".","c","o","m","/","a">>, <<"/","/","c","d","n",".","j","w",".","o","r","g","/","a">>, <<"#","p","1">>, <<"d","/","2">>, <<"/","w","o","l","/","b","c","/","r","1","/","l","p","-","e","/","1","/","0">>}
ImageSources == {<<>>, <<"/","i","m","g","/","a",".","p","n","g">>, <<"h","t","t","p","s",":","/","/","c","d","n",".","j","w",".","o","r","g","/","a",".","p","n","g">>, <<"a",".","p","n","g">>}

NoElement == [tag |-> "text", href |-> <<>>, text |-> <<>>, src |-> <<>>,
              dataSrc |-> <<>>, small |-> <<>>]

\* the links and images of the pages
RootElements ==
    {[NoElement EXCEPT !.tag = "a", !.href = h, !.text = <<" ", "J", "o", "h", "n", " ", "3">>] :
        h \in LinkHrefs}
    \cup {[NoElement EXCEPT !.tag = "img", !.src = a, !.dataSrc = b, !.small = <<"/","s",".","p","n","g">>] :
            a \in ImageSources, b \in {<<>>, <<"/","i","m","g","/","d",".","p","n","g">>}}
    \cup {[NoElement EXCEPT !.tag = "img"]}

AbsolutizeInit ==
    /\ Idle
    /\ fin \in {[documentUrl |-> [valid |-> TRUE, hostname |-> WolHost, pathname |-> DocPath,
                                   search |-> <<>>],
                   elements |-> els] :
                    els \in UNION {[1..n -> RootElements] : n \in 1..MaxElements}}
    /\ fout = <<>> /\ fstep = 0

\* parseDocument normalizes the links and images of the page
NormalizeRoot ==
    /\ fstep = 0
    /\ fout' = <<normalizeRoot(fin.elements, originOf(fin.documentUrl))>>
    /\ fstep' = 1
    /\ UNCHANGED <<fin, frames, svars>>

\* parseDocument normalizes the links and images of its own output
NormalizeAgain ==
    /\ fstep = 1
    /\ fout' = Append(fout, normalizeRoot(fout[1], originOf(fin.documentUrl)))
    /\ fstep' = 2
    /\ UNCHANGED <<fin, frames, svars>>

AbsolutizeNext == NormalizeRoot \/ NormalizeAgain

AbsolutizeSpec == AbsolutizeInit /\ [][AbsolutizeNext]_vars

----------------------------------------------------------------------------
(* parseSearchResults applied to the selected navigation marker of a page   *)

\* the largest page number written in a marker
MaxSelected == 12

PageWord == <<"P","a","g","e"," ">>

\* the texts of the selected navigation marker: none, a number alone, within
\* white space, after a word or a sign, before a word, and words alone
SelectedTexts ==
    {lead \o number \o trail :
        lead \in {<<>>, <<" ">>, PageWord, <<"-">>},
        number \in {<<>>} \cup {pageToString(n) : n \in 0..MaxSelected},
        trail \in {<<>>, <<" ">>, <<" ","o","f"," ","5">>}}

CurrentPageInit ==
    /\ Idle
    /\ fin \in {[total |-> 41, text |-> pageToString(41) \o ResultsWord, selected |-> t] :
                    t \in SelectedTexts}
    /\ fout = <<>> /\ fstep = 0

\* the pagination parseSearchResults computes from the page
ParseCurrentPage ==
    /\ fstep = 0
    /\ fout' = <<Pagination(totalResultsOf(fin.text), currentPageOf(fin.selected))>>
    /\ fstep' = 1
    /\ UNCHANGED <<fin, frames, svars>>

CurrentPageNext == ParseCurrentPage

CurrentPageSpec == CurrentPageInit /\ [][CurrentPageNext]_vars

----------------------------------------------------------------------------
(* buildSearchURL applied to a query and its options                       *)

\* the most publication filters of a search of SearchUrlSpec
MaxPubs == 2

SearchQueries == {<<"a">>, <<"a","&","b">>, <<"q","=","1"," ","+">>}
SearchScopes == {<<"s","e","n">>}
SearchPublications == UNION {[1..n -> {<<"w">>, <<"e","s">>}] : n \in 0..MaxPubs}
SearchLanguages == {<<"e","n">>, <<"p","t","-","B","R">>, <<"E","S">>, <<>>, <<"e","n","#">>, <<"p","t","?","q","=","x","&">>}
SearchSorts == {<<"o","c","c">>, <<"n","e","w","e","s","t">>, <<"o","l","d","e","s","t">>, <<"d","a","t","e">>}
SearchPages == 0..MaxPage \cup {12}

\* the options of the searches of SearchUrlSpec: each of them absent or given
SearchUrlOptions ==
    {DefaultSearchOptions}
    \cup {[DefaultSearchOptions EXCEPT !.hasScope = TRUE, !.scope = s,
                                        !.hasPublications = TRUE, !.publications = ps,
                                        !.hasSort = TRUE, !.sort = r,
                                        !.hasPage = TRUE, !.page = pg] :
              s \in SearchScopes, ps \in SearchPublications, r \in SearchSorts,
              pg \in SearchPages}
    \cup {[DefaultSearchOptions EXCEPT !.hasPublications = TRUE, !.publications = ps,
                                        !.hasLanguage = TRUE, !.language = l,
                                        !.hasPage = TRUE, !.page = pg] :
              ps \in SearchPublications, l \in SearchLanguages, pg \in SearchPages}

SearchUrlInit ==
    /\ Idle
    /\ fin \in [query : SearchQueries, options : SearchUrlOptions]
    /\ fout = <<>> /\ fstep = 0

\* buildSearchURL(query, options)
BuildSearchURL ==
    /\ fstep = 0
    /\ fout' = <<SearchHref(fin.query, fin.options, wolLanguages)>>
    /\ fstep' = 1
    /\ UNCHANGED <<fin, frames, svars>>

SearchUrlNext == BuildSearchURL

SearchUrlSpec == SearchUrlInit /\ [][SearchUrlNext]_vars

----------------------------------------------------------------------------
(* resolveWolConfig applied to a language and a routing table              *)

\* the languages asked for; <<>> is a language that is absent or empty
RoutedLanguages == {<<>>, <<"e","n">>, <<"E","N">>, <<"e","n","-","U","S">>, <<"e","n","_","G","B">>, <<"p","t","-","B","R">>, <<"p","t","_","b","r">>, <<"P","T">>, <<"e","s">>, <<"x","x">>, <<"z","h","-","H","a","n","t","-","T","W">>, <<"-","p","t">>, <<"_">>, <<"e","-","n">>}

EntryEn == [lp |-> <<"e">>, rsconf |-> <<"r","1">>]
EntryPt == [lp |-> <<"t">>, rsconf |-> <<"r","5">>]
\* an entry without rsconf
EntryEs == [lp |-> <<"s">>, rsconf |-> <<>>]

\* routing tables: none of the languages, English, Portuguese and Spanish,
\* all three
RoutingTables ==
    {[c \in {} |-> EntryEn],
      [c \in {En} |-> EntryEn],
      [c \in {<<"p","t">>, <<"e","s">>} |-> IF c = <<"p","t">> THEN EntryPt ELSE EntryEs],
      [c \in {En, <<"p","t">>, <<"e","s">>} |->
          IF c = En THEN EntryEn ELSE IF c = <<"p","t">> THEN EntryPt ELSE EntryEs]}

RoutingInit ==
    /\ Idle
    /\ fin \in [language : RoutedLanguages, mapping : RoutingTables]
    /\ fout = <<>> /\ fstep = 0

\* resolveWolConfig(language), and the code it normalizes the language to
ResolveWolConfig ==
    /\ fstep = 0
    /\ fout' = <<[norm |-> normalizeIsoLanguageCode(fin.language),
                  config |-> resolveWolConfig(fin.language, fin.mapping)]>>
    /\ fstep' = 1
    /\ UNCHANGED <<fin, frames, svars>>

\* resolveWolConfig applied to the normalized code
ResolveNormalized ==
    /\ fstep = 1
    /\ fout' = Append(fout, [norm |-> normalizeIsoLanguageCode(fout[1].norm),
                             config |-> resolveWolConfig(fout[1].norm, fin.mapping)])
    /\ fstep' = 2
    /\ UNCHANGED <<fin, frames, svars>>

RoutingNext == ResolveWolConfig \/ ResolveNormalized

RoutingSpec == RoutingInit /\ [][RoutingNext]_vars

----------------------------------------------------------------------------
(* Concurrent invocations of the public operations                         *)
(*                                                                         *)
(* Every invocation has a frame of its own: its position, the counter i,   *)
(* the timers and the abort controllers of its fetchWithRetry calls, and   *)
(* its result.  An invocation runs from one await to the next when what it *)
(* awaits settles; between two awaits of one invocation the others may     *)
(* run.  The frame records the events the invocation was resumed with; a   *)
(* timer that expires after its attempt ended aborts its controller and    *)
(* resumes nothing.                                                        *)

Operations == {"search", "getDocumentByUrl", "browsePublications", "getVideoSubtitles"}

\* the invocations that run concurrently
Invocations == {1, 2}

\* the statuses upstream answers a concurrent invocation with
FrameStatuses == {200, 404}

\* what resumes an invocation: its call, the response or the failure of its
\* fetch, one of its 30 s timers, its backoff timer, the body of its response
NoEvent == [kind |-> "call", status |-> 0, id |-> <<0, 0>>, ok |-> TRUE]

\* the frame of the invocation of operation o before its call
NewFrame(o) ==
    [op |-> o, pc |-> "idle", call |-> 0, i |-> 0, timers |-> {}, aborted |-> {},
     seen |-> <<>>, result |-> "pending"]

\* the operation ends with a value or an error
Ends(f, result) == [f EXCEPT !.pc = "done", !.result = result]

\* fetchWithRetry at its loop test with counter k, in call number c
FrameAttempt(f, c, k) ==
    IF LoopTest(k, MaxRetries(f.op))
    THEN [f EXCEPT !.call = c, !.i = k, !.timers = @ \cup {<<c, k>>}, !.pc = "fetching"]
    ELSE Ends([f EXCEPT !.call = c, !.i = k], "NETWORK_ERROR")

\* the catch block of the loop of fetchWithRetry; an error without a code
\* becomes a NETWORK_ERROR in the catch block of the operation
FrameAttemptThrew(f, code) ==
    IF LastAttempt(f.i, MaxRetries(f.op)) THEN Ends(f, code)
    ELSE [f EXCEPT !.pc = "backoff"]

\* the operation resumes with the response of fetchWithRetry
FrameResponse(f, status) ==
    CASE f.op = "search" -> [f EXCEPT !.pc = "reading"]
      [] f.op = "getDocumentByUrl" ->
            IF status = 404 THEN Ends(f, "NOT_FOUND")
            ELSE IF status = 502 \/ status = 503 THEN Ends(f, "SERVICE_UNAVAILABLE")
            ELSE [f EXCEPT !.pc = "reading"]
      [] f.op = "getVideoSubtitles" /\ f.call = 1 ->
            IF ResponseOk(status) THEN [f EXCEPT !.pc = "reading"]
            ELSE IF status = 404 THEN Ends(f, "NOT_FOUND")
            ELSE Ends(f, "SERVICE_UNAVAILABLE")
      [] OTHER ->
            IF ResponseOk(status) THEN [f EXCEPT !.pc = "reading"]
            ELSE Ends(f, "NOT_FOUND")

\* the status of the response the invocation is reading the body of
StatusRead(f) ==
    LET responses == SelectSeq(f.seen, LAMBDA e : e.kind = "response")
    IN  responses[Len(responses)].status

\* the operation resumes with the body of the response, or with the error of
\* reading it
FrameBody(f, ok) ==
    IF ~ok THEN Ends(f, "NETWORK_ERROR")
    ELSE CASE f.op = "search" ->
                IF StatusRead(f) = 404 THEN Ends(f, "empty SearchResponse")
                ELSE IF StatusRead(f) = 502 \/ StatusRead(f) = 503
                THEN Ends(f, "SERVICE_UNAVAILABLE")
                ELSE Ends(f, "SearchResponse")
           [] f.op = "getDocumentByUrl" -> Ends(f, "Document")
           [] f.op = "getVideoSubtitles" /\ f.call = 1 -> FrameAttempt(f, 2, 0)
           [] OTHER -> Ends(f, "VideoSubtitleResult")

\* the invocation can be resumed with the event
Awaits(f, e) ==
    CASE e.kind = "call" -> f.pc = "idle"
      [] e.kind = "response" -> f.pc = "fetching"
      [] e.kind = "failure" -> f.pc = "fetching"
      [] e.kind = "timer" -> e.id \in f.timers
      [] e.kind = "backoff" -> f.pc = "backoff"
      [] OTHER -> f.pc = "reading"

\* the frame after the invocation was resumed with the event and ran to its
\* next await or to its end
After(f, e) ==
    LET g == [f EXCEPT !.seen = Append(@, e)] IN
    CASE e.kind = "call" ->
            IF f.op = "browsePublications" THEN Ends(g, "Publication[]")
            ELSE FrameAttempt(g, 1, 0)
      [] e.kind = "response" ->
            FrameResponse([g EXCEPT !.timers = @ \ {<<f.call, f.i>>}], e.status)
      [] e.kind = "failure" -> FrameAttemptThrew(g, "NETWORK_ERROR")
      [] e.kind = "timer" ->
            IF f.pc = "fetching" /\ e.id = <<f.call, f.i>>
            THEN FrameAttemptThrew([g EXCEPT !.timers = @ \ {e.id},
                                             !.aborted = @ \cup {e.id}], "20")
            ELSE [f EXCEPT !.timers = @ \ {e.id}, !.aborted = @ \cup {e.id}]
      [] e.kind = "backoff" -> FrameAttempt(g, f.call, f.i + 1)
      [] OTHER -> FrameBody(g, e.ok)

\* one counter shared by the invocations, the one of the first of them
CounterCellShared(p) == 1

\* the frame that holds the counter i of the fetchWithRetry calls of
\* invocation p: i is a variable of the loop of the call
CounterCell(p) == p

\* invocation p is resumed with the event
Resume(p, e) ==
    LET c == CounterCell(p)
        f == [frames[p] EXCEPT !.i = frames[c].i]
        g == After(f, e)
    IN  /\ Awaits(f, e)
        /\ frames' = [[frames EXCEPT ![p] = [g EXCEPT !.i = frames[p].i]]
                          EXCEPT ![c].i = g.i]
        /\ UNCHANGED <<fin, fout, fstep, svars>>

Call(p) == Resume(p, NoEvent)
FetchResolvesFor(p, status) ==
    Resume(p, [NoEvent EXCEPT !.kind = "response", !.status = status])
FetchFailsFor(p) == Resume(p, [NoEvent EXCEPT !.kind = "failure"])
TimerFiresFor(p, id) == Resume(p, [NoEvent EXCEPT !.kind = "timer", !.id = id])
BackoffElapsesFor(p) == Resume(p, [NoEvent EXCEPT !.kind = "backoff"])
BodySettlesFor(p, ok) == Resume(p, [NoEvent EXCEPT !.kind = "body", !.ok = ok])

ConcurrentInit ==
    /\ NoOperation
    /\ fin = NoURL /\ fout = <<>> /\ fstep = 0
    /\ frames \in {[p \in Invocations |-> NewFrame(o[p])] : o \in [Invocations -> Operations]}

\* the most attempts that fail, over all the invocations together
MaxFailures == 3

\* the attempts of the invocation that failed
Failures(f) == Len(SelectSeq(f.seen, LAMBDA e : e.kind \in {"failure", "timer"}))

RECURSIVE FailuresOf(_)
FailuresOf(ps) ==
    IF ps = {} THEN 0
    ELSE LET p == CHOOSE q \in ps : TRUE
         IN  Failures(frames[p]) + FailuresOf(ps \ {p})

\* upstream may fail one more attempt
MayFail == FailuresOf(Invocations) < MaxFailures

ConcurrentNext ==
    \E p \in Invocations :
        \/ Call(p)
        \/ \E st \in FrameStatuses : FetchResolvesFor(p, st)
        \/ MayFail /\ FetchFailsFor(p)
        \/ \E id \in frames[p].timers :
              /\ id = <<frames[p].call, frames[p].i>> => MayFail
              /\ TimerFiresFor(p, id)
        \/ BackoffElapsesFor(p)
        \/ \E ok \in BOOLEAN : BodySettlesFor(p, ok)

ConcurrentSpec == ConcurrentInit /\ [][ConcurrentNext]_vars

----------------------------------------------------------------------------
(* Properties of fetchWithRetry                                            *)

\* the requests of the running fetchWithRetry call
CallRequests == {n \in DOMAIN requests : requests[n].controller[1] = call}

\* the running fetchWithRetry call threw to its caller
FetchThrew == pc = "done" /\ log # <<>> /\ ~log[Len(log)].ok

\* C1: a call of fetchWithRetry (either copy) makes at most 3 attempts; every
\* attempt before the last one threw; the call gives up only after the third
\* attempt threw, and then the error that reaches the caller is the error of
\* that third attempt, never the error of an earlier attempt and never
\* "Max retries exceeded".
C1_AtMostThreeAttempts ==
    /\ Len(log) <= 3
    /\ Cardinality(CallRequests) <= 3
    /\ \A k \in 1..(Len(log) - 1) : ~log[k].ok
    /\ pc = "backoff" => Len(log) < 3
    /\ pc = "fetching" => Cardinality(CallRequests) = Len(log) + 1
    /\ caught.text # "Max retries exceeded"
    /\ FetchThrew =>
          /\ Len(log) = 3
          /\ caught = log[3].error
          /\ caught.attempt = <<call, 2>>
          /\ \A k \in 1..2 : log[k].error # caught

\* C1 witness: the third attempt timed out after two network failures, and its
\* abort error reached the caller (VideoService copy, subtitle fetch)
C1_Witness ==
    /\ op = "getVideoSubtitles" /\ call = 2
    /\ FetchThrew
    /\ Len(log) = 3
    /\ log[1].error.name = "TypeError"
    /\ log[3].error.name = "DOMException"
    /\ caught = log[3].error

\* C2: an attempt that obtained a response, whatever its status, is the last
\* attempt of its call: the response is the one returned, no request follows
\* it and no backoff is waited.
C2_NoRetryOnResponse ==
    \A k \in DOMAIN log :
        log[k].ok =>
            /\ k = Len(log)
            /\ pc \notin {"fetching", "backoff"}
            /\ response.status = log[k].status
            /\ Cardinality(CallRequests) = k

\* C2 witness: the first attempt was answered 503 and fetchWithRetry returned
\* that response
C2_Witness ==
    /\ pc = "returned" /\ op = "search"
    /\ Len(log) = 1 /\ log[1].ok /\ log[1].status = 503
    /\ response.status = 503
    /\ Len(requests) = 1

----------------------------------------------------------------------------
(* Properties of the error handling of the public operations               *)

\* the error kinds of WOLError
ErrorKinds == {"SERVICE_UNAVAILABLE", "NOT_FOUND", "INVALID_QUERY", "NETWORK_ERROR",
               "PARSE_ERROR"}

\* the operation ended by throwing
OpThrew == pc = "done" /\ outcome.state = "thrown"

\* C3: every error search, getDocumentByUrl and getVideoSubtitles throw carries
\* an error kind: an exception that reaches the catch block with a kind is
\* thrown on as it is, and every other exception is replaced by a
\* NETWORK_ERROR whose details hold the query and options, or the URL.
C3_EveryThrownErrorHasKind ==
    OpThrew =>
        /\ outcome.error.code \in ErrorKinds
        /\ caught.code \in ErrorKinds => outcome.error = caught
        /\ caught.code \notin ErrorKinds =>
              /\ outcome.error.code = "NETWORK_ERROR"
              /\ outcome.error # caught
              /\ IF op = "search"
                 THEN /\ outcome.error.details.query = args.query
                      /\ outcome.error.details.options = args.options
                 ELSE outcome.error.details.url = args.url

\* C4: when upstream answers a search request with 404, search returns the
\* empty result set with the requested page (1 when none was requested) and
\* parseSearchResults is not run.
C4_Search404ReturnsEmpty ==
    (op = "search" /\ pc = "done" /\ response.status = 404) =>
        /\ outcome.state = "returned"
        /\ outcome.value.results = <<>>
        /\ outcome.value.pagination =
              [totalResults |-> 0, pageSize |-> 40, totalPages |-> 1,
               currentPage |-> IF args.options.hasPage THEN args.options.page ELSE 1]
        /\ "parseSearchResults" \notin parsers

\* C5: but for the 404 of search, no failed upstream response becomes a
\* successful return: search and getDocumentByUrl throw on every other
\* non-success status.
C5_OnlySearch404Recovers ==
    (/\ op \in {"search", "getDocumentByUrl"}
     /\ pc = "done"
     /\ response.status # 0
     /\ ~ResponseOk(response.status)
     /\ ~(op = "search" /\ response.status = 404)) =>
        outcome.state = "thrown"

\* C6: search and getDocumentByUrl throw SERVICE_UNAVAILABLE on an upstream
\* 502 or 503, getDocumentByUrl throws NOT_FOUND on an upstream 404, and in
\* these cases no parser runs and nothing is returned.
C6_UnavailableAndNotFound ==
    (op \in {"search", "getDocumentByUrl"} /\ pc = "done") =>
        /\ response.status \in {502, 503} =>
              /\ outcome.state = "thrown"
              /\ outcome.error.code = "SERVICE_UNAVAILABLE"
              /\ parsers = {}
        /\ (op = "getDocumentByUrl" /\ response.status = 404) =>
              /\ outcome.state = "thrown"
              /\ outcome.error.code = "NOT_FOUND"
              /\ parsers = {}

\* the URL is one validateAndNormalizeDocumentURL is to reject: no URL, no
\* document-library host, or no document path
NotADocumentURL(u) ==
    \/ ~u.valid
    \/ ~HostAccepted(toLowerCase(u.hostname))
    \/ ~PathAccepted(u.pathname)

\* C7: getDocumentByUrl fails with INVALID_QUERY, without any upstream
\* request, when its URL is not well formed, has no document-library host or
\* has no document path.
C7_BadDocumentUrlIsInvalidQuery ==
    (op = "getDocumentByUrl" /\ pc = "done" /\ NotADocumentURL(args.url)) =>
        /\ outcome.state = "thrown"
        /\ outcome.error.code = "INVALID_QUERY"
        /\ requests = <<>>

\* the host is jw.org or a subdomain of it
InJwOrgDomain(host) == host = JwOrg \/ endsWith(host, <<".">> \o JwOrg)

\* C8: validateAndNormalizeDocumentURL rejects every host outside the jw.org
\* domain, so getDocumentByUrl never sends a request to such a host.
C8_NoFetchOutsideJwOrg ==
    op = "getDocumentByUrl" =>
        \A n \in DOMAIN requests : InJwOrgDomain(requests[n].url.hostname)

----------------------------------------------------------------------------
(* Properties of validateAndNormalizeDocumentURL (under UrlSpec)           *)

\* the q and p parameters of a query string, in their order
QandP(search) ==
    SelectSeq(searchParams(search), LAMBDA kv : kv.k = <<"q">> \/ kv.k = <<"p">>)

\* C9: the URL returned for an accepted URL has exactly the q and p
\* parameters of the input, with their values and in their order, and the
\* function returns its own output unchanged.
C9_KeepsQandPIdempotent ==
    (fstep >= 1 /\ fout[1].ok) =>
        /\ searchParams(fout[1].url.search) = QandP(fin.search)
        /\ fstep = 2 => (fout[2].ok /\ fout[2].url = fout[1].url)

\* C9 witness: an accepted URL that loses a parameter and keeps one whose
\* value has an escaped character, normalised twice
C9_Witness ==
    /\ fstep = 2 /\ fout[1].ok /\ fout[2].ok
    /\ Len(searchParams(fin.search)) = 4
    /\ searchParams(fout[1].url.search) =
          <<[k |-> <<"q">>, v |-> <<"&">>], [k |-> <<"p">>, v |-> <<" ">>]>>
    /\ fout[1].url.search # fin.search

----------------------------------------------------------------------------
(* Properties of parseVideoUrl (under VideoUrlSpec)                        *)

\* the first non-empty value of the two names
FirstOf(search, name1, name2) ==
    LET ps == searchParams(search) IN
    IF ParamsGet(ps, name1) # <<>> THEN ParamsGet(ps, name1) ELSE ParamsGet(ps, name2)

\* the identifier and the language of a video URL
IdentifierOf(url) == FirstOf(url.search, <<"l","a","n","k">>, <<"i","t","e","m">>)
LanguageOf(url) == FirstOf(url.search, <<"w","t","l","o","c","a","l","e">>, <<"a","p","p","L","a","n","g","u","a","g","e">>)

Alnum == Range(Uppers) \cup Range(Lowers) \cup Digits

\* s and t are the same text, in any case when anyCase holds
SameText(s, t, anyCase) ==
    IF anyCase THEN toLowerCase(s) = toLowerCase(t) ELSE s = t

\* the ways to read s as <prefix>{id}_{track}_VIDEO: id a non-empty string
\* over idChars, track a non-empty string over anything but the characters
\* of noTrack, the literal parts compared in any case when anyCase holds and
\* as written otherwise
Readings(s, prefix, idChars, noTrack, anyCase) ==
    {[id |-> SubSeq(s, Len(prefix) + 1, e - 1),
      track |-> SubSeq(s, e + 1, Len(s) - Len(VideoSuffix))] :
        e \in {e \in DOMAIN s :
                /\ e > Len(prefix) + 1
                /\ e + 1 <= Len(s) - Len(VideoSuffix)
                /\ SameText(SubSeq(s, 1, Len(prefix)), prefix, anyCase)
                /\ SameText(SubSeq(s, Len(s) - Len(VideoSuffix) + 1, Len(s)),
                            VideoSuffix, anyCase)
                /\ s[e] = "_"
                /\ Range(SubSeq(s, Len(prefix) + 1, e - 1)) \subseteq idChars
                /\ Range(SubSeq(s, e + 1, Len(s) - Len(VideoSuffix))) \cap noTrack = {}}}

\* parseVideoUrl of fin resolved the identifier as the readings say: to the one
\* pub reading, else to the one docid reading, else it threw INVALID_QUERY with
\* the identifier in its message
ResolvedAs(pubs, docids) ==
    LET r == fout[1]
        lank == IdentifierOf(fin)
        want(rd, type) == [id |-> rd.id, track |-> rd.track,
                           language |-> LanguageOf(fin), type |-> type]
    IN  IF pubs # {}
        THEN r.ok /\ \A rd \in pubs : r.params = want(rd, "pub")
        ELSE IF docids # {}
        THEN r.ok /\ \A rd \in docids : r.params = want(rd, "docid")
        ELSE /\ ~r.ok
             /\ r.error.code = "INVALID_QUERY"
             /\ r.error.arg = lank

\* parseVideoUrl got as far as the identifier of fin
IdentifierReached ==
    fstep = 1 /\ fin.valid /\ LanguageOf(fin) # <<>> /\ IdentifierOf(fin) # <<>>

\* C10 as stated: pub-{id}_{track}_VIDEO resolves to {id, track, 'pub'},
\* docid-{digits}_{track}_VIDEO to {id, track, 'docid'}, every other
\* identifier fails with INVALID_QUERY and a message that contains it.
C10_AsStated ==
    IdentifierReached =>
        ResolvedAs(Readings(IdentifierOf(fin), PubPrefix, Alnum \cup {"-"}, {}, FALSE),
                   Readings(IdentifierOf(fin), DocidPrefix, Digits, {}, FALSE))

\* C10 amended: as stated, with pub-, docid- and _VIDEO matched in any case
\* and a track that holds no line terminator; and the URL of the example
\* resolves to {id: 'jwbvod25', track: '41', language: 'E', type: 'pub'}.
C10_ParseVideoUrlShapes ==
    /\ IdentifierReached =>
        ResolvedAs(Readings(IdentifierOf(fin), PubPrefix, Alnum \cup {"-"},
                            LineTerminators, TRUE),
                   Readings(IdentifierOf(fin), DocidPrefix, Digits,
                            LineTerminators, TRUE))
    /\ (fstep = 1 /\ fin.valid /\ fin.search = <<"w","t","l","o","c","a","l","e","=","E","&","l","a","n","k","=","p","u","b","-","j","w","b","v","o","d","2","5","_","4","1","_","V","I","D","E","O">>) =>
        fout[1].params = [id |-> <<"j","w","b","v","o","d","2","5">>, track |-> <<"4","1">>,
                          language |-> <<"E">>, type |-> "pub"]

\* C10 witness: an identifier in another case, with a hyphen in its id and an
\* underscore in its track, resolved as a publication
C10_Witness ==
    /\ fstep = 1 /\ fout[1].ok
    /\ fout[1].params.type = "pub"
    /\ "-" \in Range(fout[1].params.id)
    /\ "_" \in Range(fout[1].params.track)
    /\ startsWith(IdentifierOf(fin), <<"P","U","B","-">>)

----------------------------------------------------------------------------
(* Properties of the results of search (under Spec)                        *)

\* search returned the results of a page it parsed
SearchReturnedPage ==
    /\ op = "search" /\ pc = "done" /\ outcome.state = "returned"
    /\ response.status # 404

\* the results of the kind among the results returned
ReturnedOfType(type) == SelectSeq(outcome.value.results, LAMBDA r : r = type)

\* what is stated of every successful return of search, but for the limit:
\* the results are key publications followed by documents, every key
\* publication of the page is there, and the pagination is the parsed one
KeyPublicationsThenDocuments ==
    /\ outcome.value.results =
          ReturnedOfType("key_publication") \o ReturnedOfType("document_result")
    /\ Len(ReturnedOfType("key_publication")) = response.body.nKey
    /\ outcome.value.pagination = parseSearchResults(response.body).pagination

----------------------------------------------------------------------------
(* Properties of getVideoSubtitles (under Spec)                            *)

\* the running fetchWithRetry call was answered, and response is its answer
Answered == log # <<>> /\ log[Len(log)].ok

\* a status of the 2xx range
IsSuccessStatus(status) == status \in 200..299

\* the metadata has a video file for the language: files[language].MP4 exists
\* and is not empty
HasVideoFor(metadata) ==
    metadata.hasFiles /\ metadata.hasLang /\ Len(metadata.mp4) > 0

\* getVideoSubtitles ended by throwing an error of the kind
ThrewKind(kind) == outcome.state = "thrown" /\ outcome.error.code = kind

\* C11: in getVideoSubtitles a metadata response of status 404 gives
\* NOT_FOUND and every other non-OK metadata status SERVICE_UNAVAILABLE; an OK
\* metadata response (a readable JSON body) without a video file for the
\* language, or whose first video file has no subtitles, gives NOT_FOUND; a
\* non-OK answer to the subtitle-file request gives NOT_FOUND; and in none of
\* these cases is a VideoSubtitleResult returned.
C11_VideoErrorKinds ==
    (op = "getVideoSubtitles" /\ pc = "done" /\ Answered) =>
        /\ (call = 1 /\ response.status = 404) => ThrewKind("NOT_FOUND")
        /\ (call = 1 /\ ~IsSuccessStatus(response.status) /\ response.status # 404) =>
              ThrewKind("SERVICE_UNAVAILABLE")
        /\ (/\ call = 1 /\ IsSuccessStatus(response.status)
            /\ response.body.readable /\ ~response.body.parseThrows
            /\ (~HasVideoFor(response.body) \/ ~response.body.mp4[1])) =>
              ThrewKind("NOT_FOUND")
        /\ (call = 2 /\ ~IsSuccessStatus(response.status)) => ThrewKind("NOT_FOUND")

\* the lines of a text that are not empty
NonEmptyLines(text) == SelectSeq(Split(text, "\n"), LAMBDA l : l # <<>>)

\* getVideoSubtitles returned its result
SubtitlesReturned ==
    op = "getVideoSubtitles" /\ pc = "done" /\ outcome.state = "returned"

\* a startTime or an endTime was given
WindowGiven == args.hasStart \/ args.hasEnd

\* the cue of the subtitle file is one the invocation asks for: every cue
\* when no window is given, and otherwise the cues that overlap the window
\* from startTime (0 when absent) to endTime (the duration when absent)
CueAskedFor(c) ==
    WindowGiven =>
        /\ c.end >= (IF args.hasStart THEN args.startTime ELSE 0)
        /\ c.start <= (IF args.hasEnd THEN args.endTime ELSE env.metadata.duration)

----------------------------------------------------------------------------
(* Properties of filterVttByTimeRange (under VttFilterSpec)                *)

\* the cue overlaps the window of fin
InWindow(c) == c.end >= fin.startTime /\ c.start <= fin.endTime

\* the timestamp line and the text lines of a cue
CueContent(c) == <<StampLine(c)>> \o c.text

\* the cues of fin that overlap its window, in their order
KeptCues == SelectSeq(fin.cues, InWindow)

\* C13: the output of filterVttByTimeRange starts with the WEBVTT header and
\* holds, after it, the timestamp line and the text lines of exactly the cues
\* with cueEnd >= startTime and cueStart <= endTime, in their order; so a cue
\* 10..15 is kept for the windows [5,12], [12,20] and [0,100] and dropped for
\* [0,5] and [16,20].
C13_FilterKeepsOverlappingCues ==
    fstep = 1 =>
        /\ startsWith(fout[1], WEBVTT)
        /\ NonEmptyLines(fout[1]) =
              <<WEBVTT>> \o Concat([k \in DOMAIN KeptCues |-> CueContent(KeptCues[k])])

\* C13 witness: of two cues the one at 10..15 was kept for the window
\* [12,20] and the other one dropped
C13_Witness ==
    /\ fstep = 1
    /\ fin.startTime = 12000 /\ fin.endTime = 20000
    /\ Len(fin.cues) = 2
    /\ fin.cues[2].start = 10000 /\ fin.cues[2].end = 15000
    /\ ~InWindow(fin.cues[1])
    /\ NonEmptyLines(fout[1]) = <<WEBVTT>> \o CueContent(fin.cues[2])

----------------------------------------------------------------------------
(* Properties of vttToPlainText (under PlainTextSpec)                      *)

\* C14: no line of the output of vttToPlainText consists only of digits,
\* contains "-->" or is the header token WEBVTT.
C14_PlainTextHasNoVttLines ==
    fstep = 1 =>
        \A k \in DOMAIN Split(fout[1], "\n") :
            LET line == Split(fout[1], "\n")[k] IN
            /\ ~IsNumeric(line)
            /\ ~includes(line, Arrow)
            /\ line # WEBVTT

----------------------------------------------------------------------------
(* Properties of parseSearchResults (under PaginationSpec)                 *)

\* C16: for every page parsed, the pagination has pageSize 40 and totalPages
\* equal to the larger of 1 and the total count divided by 40 and rounded up:
\* 1 for a count of 0, and otherwise the one number of pages of 40 that holds
\* the count with the last page not empty; the count is the one written on
\* the page
C16_PageSizeAndTotalPages ==
    fstep = 1 =>
        LET pagination == fout[1] IN
        /\ pagination.totalResults = fin.total
        /\ pagination.pageSize = 40
        /\ pagination.totalPages >= 1
        /\ fin.total = 0 => pagination.totalPages = 1
        /\ fin.total > 0 =>
              /\ 40 * (pagination.totalPages - 1) < fin.total
              /\ fin.total <= 40 * pagination.totalPages

\* a count of 41 written within words gives two pages
C16_Witness ==
    /\ fstep = 1
    /\ fin.total = 41 /\ fin.text # pageToString(41)
    /\ fout[1].totalResults = 41 /\ fout[1].pageSize = 40 /\ fout[1].totalPages = 2

----------------------------------------------------------------------------
(* Properties of buildSearchURL (under SearchUrlSpec)                      *)

\* the values of the parameters of the URL built that are named name, in order
BuiltValues(name) ==
    LET ps == SelectSeq(searchParams(ParseHref(fout[1]).search), LAMBDA kv : kv.k = name)
    IN  [n \in DOMAIN ps |-> ps[n].v]

PageAsked == IF fin.options.hasPage THEN fin.options.page ELSE 1

\* the parameters of the URL built are the ones asked for
ParametersAsAsked ==
    /\ BuiltValues(<<"p","g">>) =
            IF PageAsked > 1 THEN <<pageToString(PageAsked)>> ELSE <<>>
    /\ BuiltValues(<<"q">>) = <<fin.query>>
    /\ BuiltValues(<<"p">>) =
            <<IF fin.options.hasScope THEN fin.options.scope ELSE <<"p","a","r">>>>
    /\ Len(BuiltValues(<<"r">>)) = 1
    /\ BuiltValues(<<"r">>)[1] \in {<<"n","e","w","e","s","t">>, <<"o","l","d","e","s","t">>, <<"o","c","c">>}
    /\ fin.options.hasSort /\ fin.options.sort \in {<<"n","e","w","e","s","t">>, <<"o","l","d","e","s","t">>}
            => BuiltValues(<<"r">>) = <<fin.options.sort>>
    /\ BuiltValues(<<"s","t">>) = <<<<"a">>>>
    /\ BuiltValues(<<"f","c","[","]">>) = fin.options.publications

\* C17: the URL built by buildSearchURL has a pg parameter if and only if
\* page > 1, then equal to the page number; it always has exactly one q (the
\* raw query), one p (the scope), one r (newest, oldest or occ), one st=a, and
\* one fc[] for each publication filter asked for, in the order given
C17_SearchUrlParameters ==
    fstep = 1 => ParametersAsAsked

----------------------------------------------------------------------------
(* Properties of resolveWolConfig (under RoutingSpec)                      *)

Separators == {"-", "_"}

\* code is the language in lower case up to its first hyphen or underscore,
\* or "en" when that is empty
IsCodeOf(code, language) ==
    LET low == toLowerCase(language) IN
    \/ /\ code # <<>>
       /\ startsWith(low, code)
       /\ \A k \in DOMAIN code : code[k] \notin Separators
       /\ Len(low) = Len(code) \/ low[Len(code) + 1] \in Separators
    \/ /\ code = <<"e","n">>
       /\ low = <<>> \/ low[1] \in Separators

\* C18: for every language whose normalized code (in lower case, up to the
\* first hyphen or underscore, "en" when absent or empty) has no entry in the
\* routing table, resolveWolConfig returns lp = the normalized code and
\* rsconf = "r1", except that the code "en" gives lp = "e"; normalizing a
\* normalized code returns it unchanged
C18_FallbackRouting ==
    /\ fstep >= 1 =>
          /\ IsCodeOf(fout[1].norm, fin.language)
          /\ fout[1].norm \notin DOMAIN fin.mapping =>
                /\ fout[1].config.lp =
                      IF fout[1].norm = <<"e","n">> THEN <<"e">> ELSE fout[1].norm
                /\ fout[1].config.rev = <<"r","1">>
    /\ fstep = 2 =>
          /\ fout[2].norm = fout[1].norm
          /\ fout[2].config = fout[1].config

\* "pt-BR" with a table that holds English only is routed as pt and r1, and
\* pt normalizes to pt
C18_Witness ==
    /\ fstep = 2
    /\ fin.language = <<"p","t","-","B","R">> /\ DOMAIN fin.mapping = {<<"e","n">>}
    /\ fout[1].config = [lp |-> <<"p","t">>, rev |-> <<"r","1">>]
    /\ fout[2].norm = <<"p","t">>

----------------------------------------------------------------------------
(* Properties of the backoff of fetchWithRetry (under Spec)                *)

\* the failed attempts of the running call that were not its last, in order
FailedBeforeLast == SelectSeq(log, LAMBDA e : ~e.ok /\ e.error.attempt[2] < 2)

\* the requests of the attempts that follow a failed attempt, of all calls and
\* of the running call
Retried == SelectSeq(requests, LAMBDA r : r.controller[2] >= 1)
RetriedOfCall == SelectSeq(Retried, LAMBDA r : r.controller[1] = call)

Backoffs == IF pc = "backoff" THEN 1 ELSE 0

\* C20: in fetchWithRetry, after failed attempt number k (counted from 0) that
\* is not the last one, the next attempt starts only after a wait of 2^k
\* seconds, 1 s after the first failure and 2 s after the second; there is no
\* wait after the final failed attempt or after an attempt that returned a
\* response
C20_BackoffWaits ==
    /\ Len(waits) = Len(Retried) + Backoffs
    /\ \A n \in DOMAIN Retried :
          waits[n] = IF Retried[n].controller[2] = 1 THEN 1000 ELSE 2000
    /\ pc = "backoff" =>
          /\ ~log[Len(log)].ok /\ log[Len(log)].error.attempt = <<call, i>>
          /\ waits[Len(waits)] = IF i = 0 THEN 1000 ELSE 2000
    /\ Len(FailedBeforeLast) = Len(RetriedOfCall) + Backoffs

\* three failed attempts of one call: waits of 1 s and 2 s, and none after the
\* third
C20_Witness ==
    /\ pc = "done" /\ outcome.state = "thrown"
    /\ Len(log) = 3 /\ \A n \in 1..3 : ~log[n].ok
    /\ waits = <<1000, 2000>>

----------------------------------------------------------------------------
(* Properties of concurrent invocations (under ConcurrentSpec)             *)

RECURSIVE Alone(_, _)
\* the frame of an invocation that runs alone and is resumed with the events
Alone(f, events) ==
    IF events = <<>> THEN f ELSE Alone(After(f, Head(events)), Tail(events))

\* the frame f of an invocation is the frame g, but for timers of g that
\* expired after their attempt had ended
SameButExpired(f, g) ==
    /\ f.pc = g.pc /\ f.call = g.call /\ f.i = g.i /\ f.result = g.result
    /\ f.timers \subseteq g.timers
    /\ g.aborted \subseteq f.aborted
    /\ f.timers \cup f.aborted = g.timers \cup g.aborted
    /\ f.timers \cap f.aborted = {}

\* every invocation is where it would be, with the result, the counter, the
\* timers and the controllers it would have, had it run alone with the same
\* upstream responses
AsAlone ==
    \A p \in Invocations :
        SameButExpired(frames[p], Alone(NewFrame(frames[p].op), frames[p].seen))

\* a step resumes one invocation and leaves the frame of every other one as
\* it was
OneFrameChanges ==
    [][\E p \in Invocations :
            /\ frames'[p] # frames[p]
            /\ \A q \in Invocations \ {p} : frames'[q] = frames[q]]_vars

\* C19: concurrent invocations of search, getDocumentByUrl, browsePublications
\* and getVideoSubtitles share no mutable state: under every interleaving of
\* their suspension points the result or error of each invocation is the one
\* it would produce running alone with the same upstream responses, and the
\* retry counter, the abort controllers and the timers of an invocation are
\* those of that run alone: no step of another invocation changes them
C19_ConcurrentAsAlone == []AsAlone /\ OneFrameChanges

\* two invocations ended after their awaits were interleaved: the first gave
\* up after three failed attempts while the second was retrying
C19_Witness ==
    /\ frames # <<>>
    /\ frames[1].pc = "done" /\ frames[2].pc = "done"
    /\ frames[1].op = "search" /\ frames[1].result = "NETWORK_ERROR" /\ frames[1].i = 2
    /\ frames[2].op = "getVideoSubtitles" /\ frames[2].result = "VideoSubtitleResult"
    /\ frames[2].call = 2 /\ frames[2].i = 1
    /\ Len(frames[1].seen) > 3

----------------------------------------------------------------------------
(* Properties of the timeouts of fetchWithRetry (under Spec)               *)

\* the timers that expire in the step
Expiring == {id \in timers : id \notin timers' /\ id \in aborted' /\ id \notin aborted}

\* the expiry of the timer of an attempt sends no request, and the only
\* attempt it can fail is its own, while that attempt is in flight
ExpiryAbortsOwnAttempt ==
    \A id \in Expiring :
        /\ requests' = requests
        /\ aborted' = aborted \cup {id}
        /\ log' # log =>
              /\ pc = "fetching" /\ id = <<call, i>>
              /\ log' = Append(log, log'[Len(log')])
              /\ log'[Len(log')].error.attempt = id
        /\ id # <<call, i>> => pc' = pc /\ log' = log /\ outcome' = outcome

\* a request is sent with the signal of a controller that no earlier request
\* had and that is not aborted, and with a timer of its own that was not
\* pending before
FreshTimeout ==
    Len(requests') > Len(requests) =>
        LET id == requests'[Len(requests')].controller IN
        /\ id = <<call', i'>>
        /\ \A n \in DOMAIN requests : requests[n].controller # id
        /\ id \notin aborted'
        /\ id \notin timers /\ id \in timers'

\* C21: every attempt of fetchWithRetry has its own abort controller and its
\* own 30 s timer: the expiry of the timer of attempt k, also of a timer that
\* is still pending after attempt k failed for another reason, aborts only the
\* request of attempt k, never the request of a later attempt, and each later
\* attempt starts with a fresh timeout
C21_TimeoutPerAttempt == [][ExpiryAbortsOwnAttempt /\ FreshTimeout]_vars

\* the timer of attempt 0, which failed on the network, expired while attempt
\* 1 was in flight or before, and attempt 1 is in flight with its own timer
C21_Witness ==
    /\ pc = "fetching" /\ call = 1 /\ i = 1
    /\ Len(log) = 1 /\ log[1].error.name = "TypeError"
    /\ <<1, 0>> \in aborted /\ <<1, 1>> \in timers /\ <<1, 1>> \notin aborted

----------------------------------------------------------------------------
(* Properties of the waits on upstream (under Spec)                        *)

\* the invocation waits on upstream: for the response of a fetch, or for the
\* body of a response
WaitsOnUpstream == pc \in {"fetching", "search_text", "doc_text", "video_json", "video_text"}

\* C22: every point at which a public operation waits on upstream network
\* I/O, the reading of a response body included, lies inside an attempt of
\* fetchWithRetry and is covered by the timeout of that attempt: the timer of
\* the attempt is pending, so that a stall ends in an abort
C22_EveryWaitHasTimeout ==
    WaitsOnUpstream => <<call, i>> \in timers

----------------------------------------------------------------------------
(* Properties of the order of getVideoSubtitles (under Spec)               *)

\* the ways to read the identifier of a video URL as a publication and as a
\* document
PubReadings(url) ==
    Readings(IdentifierOf(url), PubPrefix, Alnum \cup {"-"}, LineTerminators, TRUE)
DocidReadings(url) ==
    Readings(IdentifierOf(url), DocidPrefix, Digits, LineTerminators, TRUE)

\* the URL cannot be parsed, or has neither wtlocale nor appLanguage, or
\* neither lank nor item, or an identifier of no known shape
NoVideoOf(url) ==
    \/ ~url.valid
    \/ LanguageOf(url) = <<>>
    \/ IdentifierOf(url) = <<>>
    \/ PubReadings(url) = {} /\ DocidReadings(url) = {}

\* the request is the one of the metadata, of the subtitle file
IsMetadataRequest(r) == r.accept = "application/json"
IsSubtitleRequest(r) == r.accept = "text/vtt"

\* the metadata request carries the id under pub when the identifier reads as
\* a publication, else under docid, and under no other of the two names
IdUnderItsType(r, url) ==
    LET ps == searchParams(r.url.search)
        named == {n \in DOMAIN ps : ps[n].k \in {<<"p","u","b">>, <<"d","o","c","i","d">>}}
        pubs == PubReadings(url)
    IN  /\ Cardinality(named) = 1
        /\ \A n \in named :
            IF pubs # {}
            THEN ps[n].k = <<"p","u","b">> /\ \E rd \in pubs : ps[n].v = rd.id
            ELSE ps[n].k = <<"d","o","c","i","d">>
                 /\ \E rd \in DocidReadings(url) : ps[n].v = rd.id

\* getVideoSubtitles starts by parsing the URL: for a URL that names no video
\* it throws INVALID_QUERY and has requested nothing, for any other it
\* requests the metadata with the id under its type
UrlParsedFirst ==
    (pc = "idle" /\ op' = "getVideoSubtitles") =>
        IF NoVideoOf(args'.url)
        THEN requests' = <<>> /\ pc' = "done"
             /\ outcome'.state = "thrown" /\ outcome'.error.code = "INVALID_QUERY"
        ELSE /\ Len(requests') = 1
             /\ IsMetadataRequest(requests'[1])
             /\ IdUnderItsType(requests'[1], args'.url)

\* the invocation keeps its arguments, and requests nothing once it has ended
SameInvocation ==
    pc # "idle" => /\ op' = op /\ args' = args
                   /\ pc = "done" => requests' = requests

\* the metadata request comes first, every metadata request is the same, and
\* the requests of the subtitle file come after them
VideoRequestsInOrder ==
    (op = "getVideoSubtitles" /\ requests # <<>>) =>
        /\ IsMetadataRequest(requests[1])
        /\ \A n \in DOMAIN requests :
            /\ IsMetadataRequest(requests[n]) => requests[n].url = requests[1].url
            /\ IsSubtitleRequest(requests[n]) =>
                \A m \in (n + 1)..Len(requests) : IsSubtitleRequest(requests[m])

\* the first request of the subtitle file is made when the body of an OK
\* metadata response has been read and holds a video file for the language
\* whose first entry has subtitles
SubtitlesAfterMetadata ==
    (/\ Len(requests') > Len(requests)
     /\ IsSubtitleRequest(requests'[Len(requests')])
     /\ \A n \in DOMAIN requests : ~IsSubtitleRequest(requests[n]))
    => /\ pc = "video_json"
       /\ Answered /\ ResponseOk(response.status)
       /\ IsMetadataRequest(requests[Len(requests)])
       /\ response.body.readable /\ ~response.body.parseThrows
       /\ HasVideoFor(response.body) /\ response.body.mp4[1]

\* C23: getVideoSubtitles parses the URL, fetches the metadata, selects the
\* first video, requires subtitles and then fetches the subtitle file: no
\* upstream request is made for a URL that cannot be parsed, lacks both
\* wtlocale and appLanguage, lacks both lank and item or carries an
\* unrecognized identifier (all INVALID_QUERY); the subtitle file is requested
\* only after the metadata request returned an OK response with at least one
\* MP4 entry for the language whose first entry has subtitles; the metadata
\* request carries the id under exactly one of pub and docid, the one of the
\* resolved type
C23_VideoStepsInOrder ==
    /\ []VideoRequestsInOrder
    /\ [][UrlParsedFirst /\ SameInvocation /\ SubtitlesAfterMetadata]_vars

\* the subtitles of a video named by a document id were returned after a
\* metadata request and a request of the subtitle file
C23_Witness ==
    /\ op = "getVideoSubtitles" /\ pc = "done" /\ outcome.state = "returned"
    /\ DocidReadings(args.url) # {}
    /\ Len(requests) >= 2
    /\ IsMetadataRequest(requests[1]) /\ IsSubtitleRequest(requests[Len(requests)])

----------------------------------------------------------------------------
(* Properties of the validation of search (under Spec)                     *)

\* the query of the first request: the value of its parameter q
QuerySent == ParamsGet(searchParams(requests[1].url.search), <<"q">>)

\* the query of the invocation is refused: useOperators is true and the
\* query fails the validation of its operators
QueryRefused ==
    args.options.useOperators = "true" /\ ~validateOperators(args.query)

\* C24: search throws INVALID_QUERY exactly when options.useOperators is true
\* and the query fails the validation of its operators, and then before any
\* upstream request; with useOperators false or absent a query that fails
\* the validation is still sent upstream
C24_ValidationOnlyWithOperators ==
    op = "search" =>
        /\ ThrewKind("INVALID_QUERY") <=> QueryRefused
        /\ QueryRefused => requests = <<>> /\ pc = "done"
        /\ ~QueryRefused => requests # <<>> /\ QuerySent = args.query

\* a query that fails the validation was sent upstream without useOperators
\* and the search returned
C24_Witness ==
    /\ op = "search" /\ pc = "done" /\ outcome.state = "returned"
    /\ ~validateOperators(args.query)
    /\ args.options.useOperators = "absent"
    /\ QuerySent = args.query

----------------------------------------------------------------------------
(* Properties of a failure of parseDocument (under Spec)                   *)

\* parseDocument ran on a body it throws on
ParseDocumentThrew ==
    /\ op = "getDocumentByUrl" /\ pc = "done"
    /\ "parseDocument" \in parsers
    /\ response.body.parseThrows

\* C25: no operation throws PARSE_ERROR: an exception inside parseDocument
\* is thrown on as an error without a kind that carries the text of the
\* exception, and reaches the caller of getDocumentByUrl as a NETWORK_ERROR
\* that carries the text of that error; no Document is returned
C25_ParseFailureIsNetworkError ==
    /\ outcome.error.code # "PARSE_ERROR"
    /\ caught.code # "PARSE_ERROR"
    /\ ParseDocumentThrew =>
        /\ ~HasCode(caught) /\ caught.site = 425 /\ caught.inner = "parse"
        /\ outcome.state = "thrown"
        /\ outcome.error.code = "NETWORK_ERROR"
        /\ outcome.error.inner = caught.text
        /\ outcome.value.kind # "Document"

\* a document whose parsing threw was answered with an error
C25_Witness ==
    ParseDocumentThrew /\ outcome.state = "thrown" /\ ResponseOk(response.status)

----------------------------------------------------------------------------
(* Properties of the repeated lines of vttToPlainText (under PlainTextSpec) *)

\* the cleaned fragments of cue text of the subtitle file, in order
Fragments == collectText(Split(PlainTextFile(fin), "\n"), FALSE)

\* the fragments that differ from the fragment immediately before them
WithoutRepeats(fragments) ==
    LET kept == {k \in DOMAIN fragments : k = 1 \/ fragments[k] # fragments[k - 1]}
        nth(n) == CHOOSE k \in kept : Cardinality({l \in kept : l <= k}) = n
    IN  [n \in 1..Cardinality(kept) |-> fragments[nth(n)]]

RECURSIVE JoinEvery(_, _)
\* the sentences of the fragments when every one of them is taken: a fragment
\* goes on the sentence so far after a space, or starts a new one when the
\* sentence so far ends with punctuation
JoinEvery(fragments, sentence) ==
    IF fragments = <<>>
    THEN IF sentence # <<>> THEN <<trim(sentence)>> ELSE <<>>
    ELSE IF sentence = <<>> THEN JoinEvery(Tail(fragments), Head(fragments))
    ELSE IF EndsSentence(sentence)
    THEN <<trim(sentence)>> \o JoinEvery(Tail(fragments), Head(fragments))
    ELSE JoinEvery(Tail(fragments), sentence \o <<" ">> \o Head(fragments))

\* C26: vttToPlainText drops a cleaned fragment of cue text exactly when it
\* is identical to the fragment immediately before it; every other fragment
\* is in the output, in order, also one that merely equals the last
\* characters of the text accumulated so far
C26_DropsOnlyRepeats ==
    fstep = 1 =>
        fout[1] = Join(JoinEvery(WithoutRepeats(Fragments), <<>>), <<"\n">>)

----------------------------------------------------------------------------
(* Properties of the current page (under CurrentPageSpec)                  *)

\* C27: the currentPage parseSearchResults returns is always a positive
\* integer: the number in the selected navigation marker when the text of
\* the marker is a number, and 1 when the marker is absent, empty or its text
\* does not start with a number, as a text that holds digits after a word
C27_CurrentPagePositive ==
    fstep = 1 =>
        LET currentPage == fout[1].currentPage
            text == trim(fin.selected)
        IN  /\ ~currentPage.nan
            /\ currentPage.ms >= 1000 /\ currentPage.ms % 1000 = 0
            /\ IsNumeric(text) /\ DigitsValue(text) >= 1 =>
                    currentPage.ms = 1000 * DigitsValue(text)
            /\ (text = <<>> \/ text[1] \notin Digits \cup {"+", "-"}) =>
                    currentPage.ms = 1000

----------------------------------------------------------------------------
(* Properties of the publication name (under PublicationSpec)              *)

\* the text segments of the breadcrumbs joined with ' / '
BreadcrumbName ==
    LET lines == Split(fin.crumbText, "\n")
        segments == SelectSeq([k \in DOMAIN lines |-> trim(lines[k])],
                              LAMBDA segment : segment # <<>>)
    IN  Join(segments, <<" ", "/", " ">>)

\* C28: the publication name of parseDocument is the text of the publication
\* title of the navigation bar when it has text, else the text segments of
\* the breadcrumbs joined with ' / ' whenever there are breadcrumbs with
\* text, also when the list of the navigation bar exists without a text of
\* the publication title, and 'Unknown Publication' only when neither gives
\* a text
C28_PublicationName ==
    fstep = 1 =>
        fout[1] = IF fin.hasNav /\ trim(fin.pubTitle) # <<>> THEN trim(fin.pubTitle)
                  ELSE IF fin.hasCrumb /\ trim(fin.crumbText) # <<>> THEN BreadcrumbName
                  ELSE UnknownPublication

----------------------------------------------------------------------------
(* Properties of the links and images (under AbsolutizeSpec)               *)

WolOrigin == <<"h","t","t","p","s",":","/","/","w","o","l",".","j","w",".","o","r","g">>

\* the value starts with a scheme and a host
IsAbsolute(value) ==
    startsWith(value, <<"h","t","t","p",":","/","/">>) \/ startsWith(value, HttpsScheme)

\* the value starts with one slash: a path from the root of the site
IsRootRelative(value) ==
    startsWith(value, <<"/">>) /\ ~startsWith(value, <<"/", "/">>)

\* the value of the image that counts: src, else data-src, else
\* data-img-small-src
SourceOf(el) ==
    IF el.src # <<>> THEN el.src ELSE IF el.dataSrc # <<>> THEN el.dataSrc ELSE el.small

\* after is before made absolute: a root-relative value has the origin in
\* front, once, an absolute value is as it was, and no value starts with the
\* origin twice unless it did before
MadeAbsolute(before, after) ==
    /\ IsRootRelative(before) => after = WolOrigin \o before
    /\ IsAbsolute(before) => after = before
    /\ ~startsWith(before, WolOrigin) => ~startsWith(after, WolOrigin \o WolOrigin)

\* C29: the absolutization of links and images in parseDocument is
\* idempotent: a root-relative href or src gets the origin in front exactly
\* once, an absolute one is left unchanged, and running the pass again on
\* its own output changes no href and no src, so that the origin is never
\* twice in front
C29_AbsolutizationIdempotent ==
    /\ fstep >= 1 =>
        /\ Len(fout[1]) = Len(fin.elements)
        /\ \A k \in DOMAIN fin.elements :
            LET before == fin.elements[k]
                after == fout[fstep][k]
            IN  /\ (before.tag = "a" /\ after.tag = "a") =>
                        MadeAbsolute(before.href, after.href)
                /\ before.tag = "img" => MadeAbsolute(SourceOf(before), after.src)
    /\ fstep = 2 => fout[2] = fout[1]

\* a root-relative link and an image with a root-relative data-src got the
\* origin once, and the second pass left both as they were
C29_Witness ==
    /\ fstep = 2 /\ Len(fin.elements) = 2
    /\ fin.elements[1].tag = "a" /\ IsRootRelative(fin.elements[1].href)
    /\ fout[2][1].tag = "a" /\ fout[2][1].href = WolOrigin \o fin.elements[1].href
    /\ fin.elements[2].tag = "img" /\ fin.elements[2].src = <<>>
    /\ IsRootRelative(fin.elements[2].dataSrc)
    /\ fout[2][2].src = WolOrigin \o fin.elements[2].dataSrc

----------------------------------------------------------------------------
(* Properties of the chain of upstream calls (under Spec)                  *)

\* the requests of call c of fetchWithRetry
AttemptsOfCall(c) == SelectSeq(requests, LAMBDA r : r.controller[1] = c)

\* the requests whose fetch has not settled: the requests of the call that
\* runs beyond the attempts its log has recorded
Outstanding ==
    {n \in DOMAIN requests :
        /\ requests[n].controller[1] = call
        /\ requests[n].controller[2] >= Len(log)}

\* the calls of fetchWithRetry and their attempts are as many as the
\* operation allows, and the metadata is fetched before the subtitle file
CallsInChain ==
    /\ op \in {"search", "getDocumentByUrl"} =>
        /\ \A n \in DOMAIN requests : requests[n].controller[1] = 1
        /\ Len(requests) <= 3
    /\ op = "getVideoSubtitles" =>
        /\ \A n \in DOMAIN requests : requests[n].controller[1] \in {1, 2}
        /\ Len(AttemptsOfCall(1)) <= 3 /\ Len(AttemptsOfCall(2)) <= 3
        /\ Len(requests) <= 6
        /\ \A n \in DOMAIN requests :
            /\ requests[n].controller[1] = 1 <=> requests[n].accept = "application/json"
            /\ \A m \in 1..(n - 1) : requests[m].controller[1] <= requests[n].controller[1]
    /\ op = "browsePublications" => requests = <<>> /\ pc = "done"
    /\ \A n, m \in DOMAIN requests :
        requests[n].controller = requests[m].controller => n = m

\* at most one request is in flight, the one the invocation awaits
OneInFlight ==
    /\ Cardinality(Outstanding) <= 1
    /\ Outstanding # {} <=> pc = "fetching"

\* the invocation has ended, or an attempt is pending, which ends by a
\* response, a failure or its timeout, or the invocation goes on by itself:
\* the timer of a backoff elapses, or the operation resumes with the response
GoesOn ==
    \/ pc \in {"idle", "done"}
    \/ pc = "fetching" /\ <<call, i>> \in timers
    \/ ENABLED (BackoffElapses \/ SearchResumes \/ DocResumes \/ MetadataResumes
                \/ VttResumes)

\* the invocation that ended has a result or an error
EndedWithOutcome == pc = "done" => outcome.state \in {"returned", "thrown"}

\* C30: within one invocation the upstream calls are one sequential chain:
\* search and getDocumentByUrl call fetchWithRetry at most once (at most 3
\* attempts), getVideoSubtitles at most twice, the metadata before the
\* subtitle file (at most 6 attempts), browsePublications requests nothing,
\* at most one request is in flight at any time, and the invocation ends
\* with a result or an error provided each attempt ends: there is no state in
\* which it waits with no attempt pending and no step of its own to take
C30_SingleSequentialChain ==
    CallsInChain /\ OneInFlight /\ EndedWithOutcome /\ GoesOn

====
